---- MODULE Spec2Model ----
(***************************************************************************)
(* Provenance and content-addressed storage layer of the AIDO backend:     *)
(* the content store (app/infra/artifacts.py), the lineage graph store and *)
(* session heads (app/infra/meta.py) and the request handlers that drive   *)
(* them (app/api/*.py).                                                    *)
(*                                                                         *)
(* Modelling conventions                                                   *)
(*  - A string that is hashed or sorted is a sequence of naturals (its     *)
(*    tokens); Python's string order is the lexicographic order SeqLess.   *)
(*  - sha256 is collision free (spec 4.1): a digest is modelled by the     *)
(*    text it was computed from.                                           *)
(*  - A table of the metadata database is the sequence of its rows in      *)
(*    insertion (rowid) order.                                             *)
(***************************************************************************)
EXTENDS Integers, Sequences, FiniteSets, TLC

VARIABLES
    artifacts,   \* table Artifact (meta.py:13-22)
    nodes,       \* table Node (meta.py:24-31)
    heads,       \* table SessionRow (meta.py:8-11)
    store,       \* files under ArtifactStore.root
    temps,       \* files under settings.TMP_DIR
    nextTmp,     \* the next unused temporary file name
    now,         \* int(time.time())
    ret,         \* the last call and what it returned
    proc         \* calls in flight, one per concurrent handler

vars == <<artifacts, nodes, heads, store, temps, nextTmp, now, ret, proc>>

----------------------------------------------------------------------------
(* Bounds of the model *)

MaxTime == 1
MaxRows == 2
MaxNodes == 2
MaxGraph == 3
MaxParents == 3
MaxTemps == 3
MaxHandlers == 2

----------------------------------------------------------------------------
(* Values *)

\* Optional[str] = None (meta.py:29)
None == 0

Sessions == {"s1", "s2"}

\* Every string the model hashes, in Python's (code point) string order.
Lexicon ==
    << "a", "bar", "f.csv", "filename", "g.csv", "kind", "line", "plot",
       "s1", "s2", "select * from seed", "select 1", "source_artifact",
       "sql", "upload", "x", "y", "zz" >>

Range(f) == {f[i] : i \in DOMAIN f}

TokenOf == [w \in Range(Lexicon) |-> CHOOSE i \in DOMAIN Lexicon : Lexicon[i] = w]

\* The token of a string: its rank in the lexicon (order preserving).
Tok(str) == TokenOf[str]

\* str.__lt__ on token strings: lexicographic, a proper prefix first.
RECURSIVE SeqLess(_, _)
SeqLess(a, b) ==
    IF a = <<>> THEN b # <<>>
    ELSE IF b = <<>> THEN FALSE
    ELSE IF Head(a) # Head(b) THEN Head(a) < Head(b)
    ELSE SeqLess(Tail(a), Tail(b))

\* sorted(S) for a set of token strings.
RECURSIVE SortedStrings(_)
SortedStrings(S) ==
    IF S = {} THEN <<>>
    ELSE LET m == CHOOSE x \in S : \A y \in S \ {x} : SeqLess(x, y)
         IN  <<m>> \o SortedStrings(S \ {m})

RECURSIVE Flatten(_)
Flatten(ss) == IF ss = <<>> THEN <<>> ELSE Head(ss) \o Flatten(Tail(ss))

----------------------------------------------------------------------------
(* Node identity (meta.py:38-57) *)

\* The parent list as given, empty ids dropped, neither deduplicated nor
\* sorted.
_normalize_parents_Unsorted(parents) ==
    SelectSeq(parents, LAMBDA p : p # <<>>)

_normalize_parents(parents) ==
    SortedStrings({p \in Range(parents) : p # <<>>})

_normalize_op_params(op_params) == op_params

\* A dict is the sequence of its <<key, value>> items in insertion order;
\* sort_keys=True emits them by ascending key.
RECURSIVE SortKeys(_)
SortKeys(d) ==
    IF d = <<>> THEN <<>>
    ELSE LET i == CHOOSE i \in DOMAIN d :
                    \A j \in DOMAIN d : Tok(d[j][1]) >= Tok(d[i][1])
             rest == [j \in 1..(Len(d) - 1) |-> IF j < i THEN d[j] ELSE d[j + 1]]
         IN  <<d[i]>> \o SortKeys(rest)

\* json.dumps(obj, separators=(",", ":"), sort_keys=True) of a dict of
\* scalars and of a list of strings: length-prefixed token strings.
DumpsDict(d) ==
    LET items == SortKeys(d)
    IN  <<Len(d)>> \o Flatten([i \in DOMAIN d |-> <<Tok(items[i][1]), items[i][2]>>])

DumpsList(l) ==
    <<Len(l)>> \o Flatten([i \in DOMAIN l |-> <<Len(l[i])>> \o l[i]])

hashlib_sha256(text) == text

\* A node hash that leaves the session out.
_hash_node_NoSession(session_id, parents, op_type, op_params) ==
    hashlib_sha256(
        DumpsDict(_normalize_op_params(op_params))
        \o DumpsList(_normalize_parents(parents))
        \o <<Tok(op_type)>>)

_hash_node(session_id, parents, op_type, op_params) ==
    hashlib_sha256(
        DumpsDict(_normalize_op_params(op_params))
        \o DumpsList(_normalize_parents(parents))
        \o <<Tok(session_id)>>
        \o <<Tok(op_type)>>)

----------------------------------------------------------------------------
(* Metadata store (meta.py:92-181) *)

HasRow(table, key, pk) == \E i \in DOMAIN table : table[i][key] = pk

\* The result of a lookup that finds nothing (db.get / .first() give None).
NoRow == [none |-> TRUE]

\* db.get(Model, pk)
db_get(table, key, pk) ==
    IF HasRow(table, key, pk)
    THEN table[CHOOSE i \in DOMAIN table : table[i][key] = pk]
    ELSE NoRow

\* db.add(row); db.commit() on a table whose primary key is `key`: the
\* INSERT commits, or fails with IntegrityError and changes nothing.
db_insert(table, key, row) ==
    IF HasRow(table, key, row[key])
    THEN [ok |-> FALSE, table |-> table]
    ELSE [ok |-> TRUE, table |-> Append(table, row)]

\* except IntegrityError: the loser fails instead of reading the row back.
OnIntegrityError_Raise(table, key, pk) ==
    [table |-> table, row |-> NoRow, error |-> TRUE]

\* except IntegrityError: db.rollback(); existing = db.get(...); return it,
\* or re-raise when it is not there.
OnIntegrityError(table, key, pk) ==
    [table |-> table, row |-> db_get(table, key, pk), error |-> ~HasRow(table, key, pk)]

ArtifactRowOf(a, t) ==
    [ artifact_id |-> a.artifact_id, kind |-> a.kind, format |-> a.format,
      uri |-> a.uri, bytes |-> a.bytes_, rows |-> a.rows, cols |-> a.cols,
      created_at |-> t, session_id |-> a.session_id ]

\* An upsert that overwrites the stored row with the new fields.
insert_artifact_Overwrite(table, a, t) ==
    LET row == ArtifactRowOf(a, t)
    IN  [ table |-> IF HasRow(table, "artifact_id", row.artifact_id)
                    THEN [i \in DOMAIN table |->
                            IF table[i].artifact_id = row.artifact_id THEN row ELSE table[i]]
                    ELSE Append(table, row),
          row |-> row, error |-> FALSE ]

\* insert_artifact run to completion at time t.
insert_artifact(table, a, t) ==
    LET row == ArtifactRowOf(a, t)
        try == db_insert(table, "artifact_id", row)
    IN  IF try.ok
        THEN [table |-> try.table, row |-> row, error |-> FALSE]
        ELSE OnIntegrityError(table, "artifact_id", row.artifact_id)

NodeRowOf(n, t) ==
    LET parents_norm == _normalize_parents(n.parent_node_ids)
        params_norm == _normalize_op_params(n.op_params)
    IN  [ node_id |-> _hash_node(n.session_id, parents_norm, n.op_type, params_norm),
          op_type |-> n.op_type,
          op_params |-> SortKeys(params_norm),
          parent_node_ids |-> parents_norm,
          primary_artifact_id |-> n.primary_artifact_id,
          created_at |-> t,
          session_id |-> n.session_id ]

\* An upsert that overwrites the stored row with the new fields.
insert_node_Overwrite(table, n, t) ==
    LET row == NodeRowOf(n, t)
    IN  [ table |-> IF HasRow(table, "node_id", row.node_id)
                    THEN [i \in DOMAIN table |->
                            IF table[i].node_id = row.node_id THEN row ELSE table[i]]
                    ELSE Append(table, row),
          row |-> row, error |-> FALSE ]

\* insert_node run to completion at time t.
insert_node(table, n, t) ==
    LET row == NodeRowOf(n, t)
        try == db_insert(table, "node_id", row)
    IN  IF try.ok
        THEN [table |-> try.table, row |-> row, error |-> FALSE]
        ELSE OnIntegrityError(table, "node_id", row.node_id)

----------------------------------------------------------------------------
(* Content store (artifacts.py:7-42) *)

ARTIFACTS_DIR == "data/artifacts"

\* root / digest[:2] / digest[2:4] / f"{digest}.{suffix}"
_dst_for(digest, suffix) ==
    [root |-> ARTIFACTS_DIR, digest |-> digest, suffix |-> suffix]

\* File contents are small naturals; the sha256 of a content is its digest.
_hash_file(data) == hashlib_sha256(data)

Exists(files, key, name) == \E f \in files : f[key] = name

\* A put that keeps the bytes it is given even when the store has them: the
\* temporary file goes in under a second name.
Put_KeepingBoth(files, tmpfiles, tmp, suffix) ==
    LET data == (CHOOSE f \in tmpfiles : f.name = tmp).data
        digest == _hash_file(data)
        dst == _dst_for(digest, suffix)
        gone == {f \in tmpfiles : f.name # tmp}
    IN  [ digest |-> digest, dst |-> dst,
          store |-> files \cup {[ path |-> IF Exists(files, "path", dst)
                                           THEN _dst_for(digest, "copy") ELSE dst,
                                  data |-> data ]},
          temps |-> gone ]

\* The body shared by store_parquet and store_file: hash the temporary
\* file, then move it to its destination unless that exists already, and
\* then delete it instead.
Put(files, tmpfiles, tmp, suffix) ==
    LET data == (CHOOSE f \in tmpfiles : f.name = tmp).data
        digest == _hash_file(data)
        dst == _dst_for(digest, suffix)
        gone == {f \in tmpfiles : f.name # tmp}
    IN  IF ~Exists(files, "path", dst)
        THEN [ digest |-> digest, dst |-> dst,
               store |-> files \cup {[path |-> dst, data |-> data]}, temps |-> gone ]
        ELSE [ digest |-> digest, dst |-> dst, store |-> files, temps |-> gone ]

store_parquet(files, tmpfiles, temp_parquet) == Put(files, tmpfiles, temp_parquet, "parquet")

store_file(files, tmpfiles, temp_path, ext) == Put(files, tmpfiles, temp_path, ext)

----------------------------------------------------------------------------
(* The state after construction: empty tables, an empty store *)

NoReturn == [call |-> "none"]

Idle == [pc |-> "idle"]

Handlers == 1..MaxHandlers

Empty ==
    /\ artifacts = <<>>
    /\ nodes = <<>>
    /\ heads = <<>>
    /\ store = {}
    /\ temps = {}
    /\ nextTmp = 1
    /\ now = 0
    /\ ret = NoReturn

\* int(time.time()) read by a call: the clock never runs backwards.
Clock(t) == t \in now..MaxTime /\ now' = t

Digests == {1, 2}

\* Two node ids a caller may name as parents; <<>> is the empty id "".
IdA == _hash_node("s1", <<>>, "upload", << <<"filename", Tok("f.csv")>> >>)

IdB == _hash_node("s1", <<>>, "upload", << <<"filename", Tok("g.csv")>> >>)

\* One parameter map in its two key orders, and another map.
ParamsPool ==
    { << <<"x", Tok("a")>>, <<"kind", Tok("bar")>> >>,
      << <<"kind", Tok("bar")>>, <<"x", Tok("a")>> >>,
      << <<"sql", Tok("select 1")>> >> }

\* The logical tuple of a call or of a stored row: the session, the set of
\* parents, the operation and the parameter map.
Logical(n) ==
    [ session_id |-> n.session_id, op_type |-> n.op_type,
      parents |-> Range(n.parent_node_ids) \ {<<>>}, params |-> Range(n.op_params) ]

----------------------------------------------------------------------------
(* _hash_node applied to inputs drawn from bounded sets *)

ParentLists == UNION {[1..k -> {<<>>, IdA, IdB}] : k \in 0..MaxParents}

HashArgs ==
    [ session_id : Sessions, op_type : {"sql"}, op_params : ParamsPool,
      parent_node_ids : ParentLists ]

InitHash ==
    /\ Empty
    /\ proc \in [call : {"_hash_node"}, args : HashArgs]

HashNode ==
    /\ ret = NoReturn
    /\ ret' = [ call |-> "_hash_node",
               digest |-> _hash_node(proc.args.session_id, proc.args.parent_node_ids,
                                     proc.args.op_type, proc.args.op_params) ]
    /\ UNCHANGED <<artifacts, nodes, heads, store, temps, nextTmp, now, proc>>

NextHash == HashNode

SpecHash == InitHash /\ [][NextHash]_vars

\* C1: the node id is the same for every permutation and duplication of the
\* parent list and every key order of the parameter map: whatever spelling
\* of the same logical tuple is hashed, the digest is the one computed.
C1_HashIgnoresSpelling ==
    ret.call = "_hash_node" =>
        \A v \in HashArgs :
            ( /\ v.session_id = proc.args.session_id
              /\ Range(v.parent_node_ids) = Range(proc.args.parent_node_ids)
              /\ Range(v.op_params) = Range(proc.args.op_params) )
            => _hash_node(v.session_id, v.parent_node_ids, v.op_type, v.op_params) = ret.digest

\* A digest computed from a parent list out of order with a duplicate and
\* from a parameter map whose keys are out of order.
C1_Witness ==
    /\ ret.call = "_hash_node"
    /\ proc.args.parent_node_ids = <<IdB, IdA, IdB>>
    /\ proc.args.op_params = << <<"x", Tok("a")>>, <<"kind", Tok("bar")>> >>

----------------------------------------------------------------------------
(* The metadata API called directly, one call at a time *)

\* What each session records for an artifact: the two differ in every field
\* but the id.
ApiFormats ==
    { [session_id |-> "s1", kind |-> "table", format |-> "parquet"],
      [session_id |-> "s2", kind |-> "plot", format |-> "png"] }

ApiArtifactArgs ==
    { [ artifact_id |-> d, session_id |-> f.session_id, kind |-> f.kind,
        format |-> f.format, uri |-> _dst_for(d, f.format),
        bytes_ |-> IF f.kind = "table" THEN 10 * d ELSE 20 * d,
        rows |-> IF f.kind = "table" THEN 3 ELSE 0,
        cols |-> IF f.kind = "table" THEN 1 ELSE 0 ]
      : d \in Digests, f \in ApiFormats }

\* One parent set spelled in two ways and one parameter map spelled in two
\* key orders.
ApiNodeArgs ==
    { [ session_id |-> "s1", op_type |-> "sql",
        op_params |-> << <<"sql", Tok("select 1")>> >>,
        parent_node_ids |-> p, primary_artifact_id |-> d ]
      : p \in {<<>>, <<IdA, IdB>>, <<IdB, <<>>, IdA, IdB>>}, d \in Digests }
    \cup
    { [ session_id |-> "s2", op_type |-> "plot", op_params |-> o,
        parent_node_ids |-> <<>>, primary_artifact_id |-> 1 ]
      : o \in ParamsPool }

InitMeta ==
    /\ Empty
    /\ proc = Idle

ApiInsertArtifact(a, t) ==
    /\ Clock(t)
    /\ LET r == insert_artifact(artifacts, a, t)
       IN  /\ Len(r.table) + Len(nodes) <= MaxRows
           /\ artifacts' = r.table
           /\ ret' = [call |-> "insert_artifact", args |-> a, row |-> r.row, error |-> r.error]
    /\ UNCHANGED <<nodes, heads, store, temps, nextTmp, proc>>

ApiInsertNode(n, t) ==
    /\ Clock(t)
    /\ LET r == insert_node(nodes, n, t)
       IN  /\ Len(artifacts) + Len(r.table) <= MaxRows
           /\ nodes' = r.table
           /\ ret' = [call |-> "insert_node", args |-> n, row |-> r.row, error |-> r.error]
    /\ UNCHANGED <<artifacts, heads, store, temps, nextTmp, proc>>

NextMeta ==
    \/ \E a \in ApiArtifactArgs, t \in 0..MaxTime : ApiInsertArtifact(a, t)
    \/ \E n \in ApiNodeArgs, t \in 0..MaxTime : ApiInsertNode(n, t)

SpecMeta == InitMeta /\ [][NextMeta]_vars

\* C2: insert_node called with a logical tuple that already has a row
\* returns that row as it was stored, without error, and leaves the Node
\* table as it was; and no call changes or removes a row there is.
C2_InsertNodeIdempotent ==
    [][ /\ \A i \in DOMAIN nodes : i \in DOMAIN nodes' /\ nodes'[i] = nodes[i]
        /\ \A i \in DOMAIN nodes :
              (ret'.call = "insert_node" /\ Logical(ret'.args) = Logical(nodes[i]))
              => (ret'.row = nodes[i] /\ ~ret'.error /\ nodes' = nodes) ]_vars

\* A later call, spelled differently and naming another artifact, got the
\* row of the first call back.
C2_Witness ==
    /\ ret.call = "insert_node"
    /\ ~ret.error
    /\ ret.row.created_at < now
    /\ ret.row.primary_artifact_id # ret.args.primary_artifact_id
    /\ ret.row.parent_node_ids # ret.args.parent_node_ids
    /\ Len(nodes) = 1

\* C4: insert_artifact called with an artifact_id that already has a row
\* returns that row with every field as stored, whatever fields the call
\* supplies, without error and without adding a row.
C4_InsertArtifactIdempotent ==
    [][ /\ \A i \in DOMAIN artifacts : i \in DOMAIN artifacts' /\ artifacts'[i] = artifacts[i]
        /\ \A i \in DOMAIN artifacts :
              (ret'.call = "insert_artifact" /\ ret'.args.artifact_id = artifacts[i].artifact_id)
              => (ret'.row = artifacts[i] /\ ~ret'.error /\ artifacts' = artifacts) ]_vars

\* A later call from another session with another kind and format got the
\* stored row back.
C4_Witness ==
    /\ ret.call = "insert_artifact"
    /\ ~ret.error
    /\ ret.row.created_at < now
    /\ ret.row.session_id # ret.args.session_id
    /\ ret.row.kind # ret.args.kind
    /\ ret.row.uri # ret.args.uri
    /\ Len(artifacts) = 1

----------------------------------------------------------------------------
(* The content store called directly, one put at a time *)

Suffixes == {"parquet", "png"}

InitStore ==
    /\ Empty
    /\ proc = Idle

\* A producer leaves a finished temporary file under a name never used
\* before (NamedTemporaryFile, uuid4).
WriteTemp(data) ==
    /\ nextTmp <= MaxTemps
    /\ temps' = temps \cup {[name |-> nextTmp, data |-> data]}
    /\ nextTmp' = nextTmp + 1
    /\ UNCHANGED <<artifacts, nodes, heads, store, now, ret, proc>>

\* What a put returned, and the put before it.
PutReturn(fn, tmp, r) ==
    [ call |-> "put", fn |-> fn, tmp |-> tmp,
      data |-> (CHOOSE f \in temps : f.name = tmp).data,
      digest |-> r.digest, dst |-> r.dst,
      prev |-> IF ret.call = "put" THEN [ret EXCEPT !.prev = NoReturn] ELSE NoReturn ]

StoreParquet(tmp) ==
    /\ Exists(temps, "name", tmp)
    /\ LET r == store_parquet(store, temps, tmp)
       IN  /\ store' = r.store
           /\ temps' = r.temps
           /\ ret' = PutReturn("store_parquet", tmp, r)
    /\ UNCHANGED <<artifacts, nodes, heads, nextTmp, now, proc>>

StoreFile(tmp, ext) ==
    /\ Exists(temps, "name", tmp)
    /\ LET r == store_file(store, temps, tmp, ext)
       IN  /\ store' = r.store
           /\ temps' = r.temps
           /\ ret' = PutReturn("store_file", tmp, r)
    /\ UNCHANGED <<artifacts, nodes, heads, nextTmp, now, proc>>

NextStore ==
    \/ \E data \in Digests : WriteTemp(data)
    \/ \E tmp \in 1..MaxTemps : StoreParquet(tmp)
    \/ \E tmp \in 1..MaxTemps, ext \in Suffixes : StoreFile(tmp, ext)

SpecStore == InitStore /\ [][NextStore]_vars

\* C3: after two successive puts of temporary files holding the same bytes,
\* both returned the same id, the store holds exactly one file with those
\* bytes, and neither temporary file is left.
C3_TwoPutsOneFile ==
    (ret.call = "put" /\ ret.prev.call = "put" /\ ret.prev.data = ret.data) =>
        /\ ret.digest = ret.prev.digest
        /\ Cardinality({f \in store : f.data = ret.data}) = 1
        /\ ~Exists(temps, "name", ret.tmp)
        /\ ~Exists(temps, "name", ret.prev.tmp)

----------------------------------------------------------------------------
(* The metadata API called by concurrent handlers.  A call is three steps: *)
(* it reads the clock, it runs INSERT and COMMIT as one transaction of the *)
(* database, and when that failed on the primary key it reads the row back *)
(* in a second transaction.                                                *)

RaceArtifactArgs == {a \in ApiArtifactArgs : a.artifact_id = 1 /\ a.kind = "table"}

RaceNodeArgs ==
    {n \in ApiNodeArgs :
        \/ n.parent_node_ids = <<IdA, IdB>> /\ n.primary_artifact_id = 1
        \/ n.parent_node_ids = <<IdB, <<>>, IdA, IdB>> /\ n.primary_artifact_id = 2}

InitRace ==
    /\ Empty
    /\ proc = [h \in Handlers |-> Idle]

RaceCallArtifact(h, a) ==
    /\ proc[h].pc = "idle"
    /\ proc' = [proc EXCEPT ![h] =
                    [pc |-> "insert", call |-> "insert_artifact", args |-> a,
                     row |-> ArtifactRowOf(a, now)]]
    /\ UNCHANGED <<artifacts, nodes, heads, store, temps, nextTmp, now, ret>>

RaceCallNode(h, n) ==
    /\ proc[h].pc = "idle"
    /\ proc' = [proc EXCEPT ![h] =
                    [pc |-> "insert", call |-> "insert_node", args |-> n,
                     row |-> NodeRowOf(n, now)]]
    /\ UNCHANGED <<artifacts, nodes, heads, store, temps, nextTmp, now, ret>>

Returned(h, r) ==
    [pc |-> "returned", call |-> proc[h].call, args |-> proc[h].args,
     row |-> r.row, error |-> r.error]

RaceInsertArtifact(h) ==
    /\ proc[h].pc = "insert" /\ proc[h].call = "insert_artifact"
    /\ LET try == db_insert(artifacts, "artifact_id", proc[h].row)
       IN  /\ artifacts' = try.table
           /\ proc' = [proc EXCEPT ![h] =
                          IF try.ok
                          THEN Returned(h, [row |-> proc[h].row, error |-> FALSE])
                          ELSE [proc[h] EXCEPT !.pc = "conflict"]]
    /\ UNCHANGED <<nodes, heads, store, temps, nextTmp, now, ret>>

RaceInsertNode(h) ==
    /\ proc[h].pc = "insert" /\ proc[h].call = "insert_node"
    /\ LET try == db_insert(nodes, "node_id", proc[h].row)
       IN  /\ nodes' = try.table
           /\ proc' = [proc EXCEPT ![h] =
                          IF try.ok
                          THEN Returned(h, [row |-> proc[h].row, error |-> FALSE])
                          ELSE [proc[h] EXCEPT !.pc = "conflict"]]
    /\ UNCHANGED <<artifacts, heads, store, temps, nextTmp, now, ret>>

RaceConflictArtifact(h) ==
    /\ proc[h].pc = "conflict" /\ proc[h].call = "insert_artifact"
    /\ proc' = [proc EXCEPT ![h] =
                    Returned(h, OnIntegrityError(artifacts, "artifact_id", proc[h].row.artifact_id))]
    /\ UNCHANGED <<artifacts, nodes, heads, store, temps, nextTmp, now, ret>>

RaceConflictNode(h) ==
    /\ proc[h].pc = "conflict" /\ proc[h].call = "insert_node"
    /\ proc' = [proc EXCEPT ![h] =
                    Returned(h, OnIntegrityError(nodes, "node_id", proc[h].row.node_id))]
    /\ UNCHANGED <<artifacts, nodes, heads, store, temps, nextTmp, now, ret>>

\* The handler is done with what the call returned and may call again.
RaceReturn(h) ==
    /\ proc[h].pc = "returned"
    /\ proc' = [proc EXCEPT ![h] = Idle]
    /\ UNCHANGED <<artifacts, nodes, heads, store, temps, nextTmp, now, ret>>

NextRace ==
    \E h \in Handlers :
        \/ \E a \in RaceArtifactArgs : RaceCallArtifact(h, a)
        \/ \E n \in RaceNodeArgs : RaceCallNode(h, n)
        \/ RaceInsertArtifact(h)
        \/ RaceInsertNode(h)
        \/ RaceConflictArtifact(h)
        \/ RaceConflictNode(h)
        \/ RaceReturn(h)

SpecRace == InitRace /\ [][NextRace]_vars

\* The rows of a table that a call is about: the artifact_id, or the
\* logical tuple of the node.
RowsFor(call, args) ==
    IF call = "insert_artifact"
    THEN {i \in DOMAIN artifacts : artifacts[i].artifact_id = args.artifact_id}
    ELSE {i \in DOMAIN nodes : Logical(nodes[i]) = Logical(args)}

\* C5: however the steps of concurrent calls interleave, a call that has
\* returned returned no error, exactly one row exists for what it inserted,
\* and that row (the winner's) is what it returned; no id ever has two rows.
C5_RaceReturnsWinner ==
    /\ \A h \in Handlers :
          proc[h].pc = "returned" =>
              /\ ~proc[h].error
              /\ Cardinality(RowsFor(proc[h].call, proc[h].args)) = 1
              /\ \A i \in RowsFor(proc[h].call, proc[h].args) :
                    proc[h].row = (IF proc[h].call = "insert_artifact" THEN artifacts ELSE nodes)[i]
    /\ \A i, j \in DOMAIN artifacts : artifacts[i].artifact_id = artifacts[j].artifact_id => i = j
    /\ \A i, j \in DOMAIN nodes : nodes[i].node_id = nodes[j].node_id => i = j

\* Two handlers raced for one id with different fields; both have returned,
\* and the loser returned the winner's row, not its own.
C5_Witness ==
    \E h1, h2 \in Handlers :
        /\ h1 # h2
        /\ proc[h1].pc = "returned" /\ proc[h2].pc = "returned"
        /\ proc[h1].call = proc[h2].call
        /\ proc[h1].row = proc[h2].row
        /\ proc[h1].args # proc[h2].args
        /\ proc[h1].call = "insert_node"
        /\ proc[h2].row.primary_artifact_id # proc[h2].args.primary_artifact_id

----------------------------------------------------------------------------
(* The request handlers (api/*.py), each run to completion.  Files in
   TMP_DIR that no put consumes (the copy of an uploaded CSV, the sink of a
   query that failed) are not part of the state. *)

\* The CSV files a client uploads; a table is named by the file holding it.
CsvFiles == {1}

Filenames == {"f.csv"}

\* The one-row table SELECT 1 returns.
SelectOne == 2

Tables == CsvFiles \cup {SelectOne}

\* COPY ... TO '<path>' (FORMAT PARQUET): the bytes written for a table; the
\* same table is written to the same bytes.
COPY(table) == table

IsParquet(data) == \E t \in Tables : COPY(t) = data

\* parquet_scan('<path>') of a Parquet file: the table it holds.
parquet_scan(data) == CHOOSE t \in Tables : COPY(t) = data

Columns(table) == IF table \in CsvFiles THEN {"a"} ELSE {"1"}

\* SELECT COUNT(*)
Count(table) == IF table \in CsvFiles THEN table ELSE 1

\* final_parquet.stat().st_size
st_size(data) == data

\* fig.savefig(tmp_png): the bytes of the chart of a table.
savefig(table, kind, x, y) == Cardinality(Tables) + table

\* str(artifact_id) as a parameter value, apart from the Lexicon's tokens.
Str(artifact_id) == Len(Lexicon) + artifact_id

FileAt(files, path) == CHOOSE f \in files : f.path = path

SqlTexts == {"select 1;", "select * from seed", "drop table seed"}

\* (req.sql or "").strip().rstrip(";")
sql_clean(sql) == IF sql = "select 1;" THEN "select 1" ELSE sql

\* sql_clean.lower().startswith("select")
startswith_select(sql) == sql \in {"select 1", "select * from seed"}

\* The table a SELECT returns over the view seed.
Query(seed, sql) == IF sql = "select 1" THEN SelectOne ELSE seed

\* A request that carries a parent id the client chose.
explicit_parent_Supplied(req) == <<Tok("zz")>>

\* getattr(req, "parent_node_id", None): SQLRequest and PlotRequest declare
\* no such field, so the attribute is never there; <<>> stands for None.
explicit_parent(req) == <<>>

\* A lookup of the producing node that ignores the session.
_infer_parent_node_id_AnySession(table, session_id, seed_artifact_id) ==
    LET rows == {i \in DOMAIN table : table[i].primary_artifact_id = seed_artifact_id}
        first == {i \in rows : \A j \in rows : table[j].created_at <= table[i].created_at}
    IN  IF rows = {} THEN {<<>>} ELSE {table[i].node_id : i \in first}

\* The node ids .order_by(created_at.desc()).first() may return (rows with
\* equal created_at come in no specified order); {<<>>} when it finds none.
_infer_parent_node_id(table, session_id, seed_artifact_id) ==
    LET rows == {i \in DOMAIN table : /\ table[i].session_id = session_id
                                      /\ table[i].primary_artifact_id = seed_artifact_id}
        first == {i \in rows : \A j \in rows : table[j].created_at <= table[i].created_at}
    IN  IF rows = {} THEN {<<>>} ELSE {table[i].node_id : i \in first}

\* The node ids select(Node).where(primary_artifact_id == ...).first() may
\* return (no ORDER BY, no session filter); {<<>>} when it finds none.
get_node_by_artifact(table, artifact_id) ==
    LET rows == {i \in DOMAIN table : table[i].primary_artifact_id = artifact_id}
    IN  IF rows = {} THEN {<<>>} ELSE {table[i].node_id : i \in rows}

\* The status a caller of the handler sees: ask turns every failure of the
\* handler it calls into 400.
Status(call, code) == IF call = "ask" THEN 400 ELSE code

\* A rejection that comes after the output file was written into the store.
Fail_AfterWrite(call, req, status) ==
    /\ ret' = [call |-> call, status |-> status]
    /\ store' = store \cup {[path |-> _dst_for(0, "parquet"), data |-> 0]}
    /\ UNCHANGED <<artifacts, nodes, heads, temps, nextTmp, now, proc>>

\* raise HTTPException, or an exception that escapes the handler.
Fail(call, req, status) ==
    /\ ret' = [call |-> call, status |-> status]
    /\ UNCHANGED <<artifacts, nodes, heads, store, temps, nextTmp, now, proc>>

\* The response of a request that recorded (or found) node n for artifact a.
Recorded(call, req, n, a, parent) ==
    [ call |-> call, req |-> req, status |-> 200, node_id |-> n.node_id,
      parent_node_ids |-> n.parent_node_ids, artifact_id |-> a.artifact_id,
      parent_node_id |-> parent ]

\* A Record that also moves the acting session's head to the new node.
Record_SetsHead(call, req, put, a, n, parent) ==
    /\ ~a.error /\ ~n.error
    /\ store' = put.store
    /\ temps' = put.temps
    /\ artifacts' = a.table
    /\ nodes' = n.table
    /\ heads' = [i \in DOMAIN heads |->
                    IF heads[i].session_id = req.session_id
                    THEN [heads[i] EXCEPT !.head_node_id = n.row.node_id]
                    ELSE heads[i]]
    /\ ret' = Recorded(call, req, n.row, a.row, parent)
    /\ UNCHANGED <<nextTmp, proc>>

\* store the output, insert_artifact, insert_node, return: the tail shared
\* by upload_csv, run_sql and plot_from_artifact.
Record(call, req, put, a, n, parent) ==
    /\ ~a.error /\ ~n.error
    /\ store' = put.store
    /\ temps' = put.temps
    /\ artifacts' = a.table
    /\ nodes' = n.table
    /\ ret' = Recorded(call, req, n.row, a.row, parent)
    /\ UNCHANGED <<heads, nextTmp, proc>>

\* The response to a request that ended in an exception raised by `step`.
Raised(call, req, step) ==
    [call |-> call, req |-> req, status |-> Status(call, 500), raised |-> step]

\* A tail that inserts the node row although insert_artifact has raised.
RecordOrRaise_NodeFirst(call, req, put, a, n, parent) ==
    /\ ~n.error
    /\ store' = put.store
    /\ temps' = put.temps
    /\ nodes' = n.table
    /\ ret' = Raised(call, req, "insert_artifact")
    /\ UNCHANGED <<artifacts, heads, nextTmp, proc>>

\* A tail that inserts the artifact row although the put has failed.
RecordOrRaise_RowFirst(call, req, put, a, n, parent) ==
    /\ artifacts' = a.table
    /\ ret' = Raised(call, req, "store")
    /\ UNCHANGED <<nodes, heads, store, temps, nextTmp, proc>>

\* The tail of upload_csv, run_sql and plot_from_artifact when the file
\* system or the database may fail: all three steps succeed, or the put
\* raises (mkdir, replace), or insert_artifact raises after the put, or
\* insert_node raises after both.
RecordOrRaise(call, req, put, a, n, parent) ==
    \/ Record(call, req, put, a, n, parent)
    \/ /\ ret' = Raised(call, req, "store")
       /\ UNCHANGED <<artifacts, nodes, heads, store, temps, nextTmp, proc>>
    \/ /\ store' = put.store
       /\ temps' = put.temps
       /\ ret' = Raised(call, req, "insert_artifact")
       /\ UNCHANGED <<artifacts, nodes, heads, nextTmp, proc>>
    \/ /\ ~a.error
       /\ store' = put.store
       /\ temps' = put.temps
       /\ artifacts' = a.table
       /\ ret' = Raised(call, req, "insert_node")
       /\ UNCHANGED <<nodes, heads, nextTmp, proc>>

\* The tail of a handler: Record, or RecordOrRaise when `faults` says that
\* the steps from the put on may raise.
Finish(faults, call, req, put, a, n, parent) ==
    IF faults
    THEN RecordOrRaise(call, req, put, a, n, parent)
    ELSE Record(call, req, put, a, n, parent)

\* POST /v1/upload
upload_csv_then(req, faults) ==
    \E t1 \in now..MaxTime : \E t2 \in t1..MaxTime :
        LET table == req.file
            tmp == [name |-> nextTmp, data |-> COPY(table)]
            put == store_parquet(store, temps \cup {tmp}, tmp.name)
            a == insert_artifact(artifacts,
                    [ artifact_id |-> put.digest, session_id |-> req.session_id,
                      kind |-> "table", format |-> "parquet", uri |-> put.dst,
                      bytes_ |-> st_size(tmp.data), rows |-> Count(table),
                      cols |-> Cardinality(Columns(table)) ], t1)
            n == insert_node(nodes,
                    [ session_id |-> req.session_id, op_type |-> "upload",
                      op_params |-> << <<"filename", Tok(req.filename)>> >>,
                      parent_node_ids |-> <<>>,
                      primary_artifact_id |-> a.row.artifact_id ], t2)
        IN  /\ Finish(faults, "upload_csv", req, put, a, n, <<>>)
            /\ now' = t2

\* The handler as the service runs it: no step after the put is made to fail.
upload_csv(req) == upload_csv_then(req, FALSE)

\* POST /v1/sql, also called by ask
run_sql_then(call, req, faults) ==
    IF ~HasRow(artifacts, "artifact_id", req.artifact_id)
    THEN Fail(call, req, Status(call, 404))
    ELSE
    LET seed_art == db_get(artifacts, "artifact_id", req.artifact_id)
        clean == sql_clean(req.sql)
    IN  IF ~Exists(store, "path", seed_art.uri)
        THEN Fail(call, req, Status(call, 404))
        ELSE IF ~startswith_select(clean)
        THEN Fail(call, req, Status(call, 400))
        ELSE IF ~IsParquet(FileAt(store, seed_art.uri).data)
        THEN Fail(call, req, Status(call, 500))
        ELSE
        \E t1 \in now..MaxTime : \E t2 \in t1..MaxTime :
        \E inferred \in _infer_parent_node_id(nodes, req.session_id, req.artifact_id) :
            LET table == Query(parquet_scan(FileAt(store, seed_art.uri).data), clean)
                tmp == [name |-> nextTmp, data |-> COPY(table)]
                put == store_parquet(store, temps \cup {tmp}, tmp.name)
                a == insert_artifact(artifacts,
                        [ artifact_id |-> put.digest, session_id |-> req.session_id,
                          kind |-> "table", format |-> "parquet", uri |-> put.dst,
                          bytes_ |-> st_size(tmp.data), rows |-> Count(table),
                          cols |-> Cardinality(Columns(table)) ], t1)
                parent == IF explicit_parent(req) # <<>> THEN explicit_parent(req)
                          ELSE inferred
                n == insert_node(nodes,
                        [ session_id |-> req.session_id, op_type |-> "sql",
                          op_params |-> << <<"sql", Tok(clean)>> >>,
                          parent_node_ids |-> IF parent # <<>> THEN <<parent>> ELSE <<>>,
                          primary_artifact_id |-> a.row.artifact_id ], t2)
            IN  /\ Finish(faults, call, req, put, a, n, parent)
                /\ now' = t2

\* The handler as the service runs it: no step after the put is made to fail.
run_sql(call, req) == run_sql_then(call, req, FALSE)

\* The charts a client or a plan may ask for: one that can be drawn, one of
\* a kind the schema rejects, one over a column no table has.
PlotArgs ==
    { [kind |-> "bar", x |-> "a", y |-> "a"],
      [kind |-> "pie", x |-> "a", y |-> "a"],
      [kind |-> "bar", x |-> "zz", y |-> "a"] }

\* kind: str = Field(pattern="^(bar|line|scatter)$")
ValidKind(kind) == kind \in {"bar", "line", "scatter"}

\* POST /v1/plot, also called by ask
plot_from_artifact_then(call, req, faults) ==
    IF ~ValidKind(req.kind)
    THEN Fail(call, req, Status(call, 422))
    ELSE IF ~HasRow(artifacts, "artifact_id", req.artifact_id)
    THEN Fail(call, req, Status(call, 404))
    ELSE
    LET seed_art == db_get(artifacts, "artifact_id", req.artifact_id)
    IN  IF ~Exists(store, "path", seed_art.uri) \/ ~IsParquet(FileAt(store, seed_art.uri).data)
        THEN Fail(call, req, Status(call, 500))
        ELSE IF ~({req.x, req.y} \subseteq Columns(parquet_scan(FileAt(store, seed_art.uri).data)))
        THEN Fail(call, req, Status(call, 400))
        ELSE
        \E t1 \in now..MaxTime : \E t2 \in t1..MaxTime :
        \E parent_id \in get_node_by_artifact(nodes, req.artifact_id) :
            LET table == parquet_scan(FileAt(store, seed_art.uri).data)
                tmp == [name |-> nextTmp, data |-> savefig(table, req.kind, req.x, req.y)]
                put == store_file(store, temps \cup {tmp}, tmp.name, "png")
                a == insert_artifact(artifacts,
                        [ artifact_id |-> put.digest, session_id |-> req.session_id,
                          kind |-> "plot", format |-> "png", uri |-> put.dst,
                          bytes_ |-> st_size(tmp.data), rows |-> 0, cols |-> 0 ], t1)
                n == insert_node(nodes,
                        [ session_id |-> req.session_id, op_type |-> "plot",
                          op_params |-> << <<"kind", Tok(req.kind)>>, <<"x", Tok(req.x)>>,
                                           <<"y", Tok(req.y)>>,
                                           <<"source_artifact", Str(req.artifact_id)>> >>,
                          parent_node_ids |-> IF parent_id # <<>> THEN <<parent_id>> ELSE <<>>,
                          primary_artifact_id |-> a.row.artifact_id ], t2)
            IN  /\ Finish(faults, call, req, put, a, n, parent_id)
                /\ now' = t2

\* The handler as the service runs it: no step after the put is made to fail.
plot_from_artifact(call, req) == plot_from_artifact_then(call, req, FALSE)

\* The plans llm.plan may return; "error" stands for the call raising.
Plans ==
    {[type |-> t] : t \in {"answer", "report", "other", "error"}}
      \cup {[type |-> "sql", sql |-> q] : q \in {"select 1;", "drop table seed", ""}}
      \cup {[type |-> "plot", kind |-> "bar", x |-> "a", y |-> "a"]}

\* An ask that answers every plan by running a query over the seed.
ask_then_AlwaysQuerying(req, plan, faults) ==
    run_sql_then("ask", [session_id |-> req.session_id,
                         artifact_id |-> req.artifact_id, sql |-> "select 1;"], faults)

\* POST /v1/ask
ask_then(req, plan, faults) ==
    IF ~HasRow(artifacts, "artifact_id", req.artifact_id)
    THEN Fail("ask", req, 404)
    ELSE
    LET seed_art == db_get(artifacts, "artifact_id", req.artifact_id)
    IN  IF ~Exists(store, "path", seed_art.uri) \/ ~IsParquet(FileAt(store, seed_art.uri).data)
        THEN Fail("ask", req, 500)
        ELSE IF plan.type = "error"
        THEN Fail("ask", req, 400)
        ELSE IF plan.type \in {"answer", "report"}
        THEN /\ ret' = [call |-> "ask", status |-> 200, intent |-> plan.type]
             /\ UNCHANGED <<artifacts, nodes, heads, store, temps, nextTmp, now, proc>>
        ELSE IF plan.type = "sql"
        THEN IF plan.sql = ""
             THEN Fail("ask", req, 400)
             ELSE run_sql_then("ask", [session_id |-> req.session_id,
                                       artifact_id |-> req.artifact_id, sql |-> plan.sql], faults)
        ELSE IF plan.type = "plot"
        THEN IF ~({plan.x, plan.y} \subseteq Columns(parquet_scan(FileAt(store, seed_art.uri).data)))
             THEN Fail("ask", req, 400)
             ELSE plot_from_artifact_then("ask",
                     [ session_id |-> req.session_id, artifact_id |-> req.artifact_id,
                       kind |-> plan.kind, x |-> plan.x, y |-> plan.y ], faults)
        ELSE Fail("ask", req, 400)

\* The handler as the service runs it: no step after the put is made to fail.
ask(req, plan) == ask_then(req, plan, FALSE)

\* A set_session_head that moves the head of every session that has a row.
set_session_head_EverySession(table, session_id, node_id, t) ==
    IF HasRow(table, "session_id", session_id)
    THEN [i \in DOMAIN table |->
            [table[i] EXCEPT !.head_node_id = node_id, !.updated_at = t]]
    ELSE Append([i \in DOMAIN table |->
                    [table[i] EXCEPT !.head_node_id = node_id, !.updated_at = t]],
                [session_id |-> session_id, head_node_id |-> node_id,
                 updated_at |-> t])

\* A set_session_head that only ever inserts: an existing row keeps its head.
set_session_head_KeepFirst(table, session_id, node_id, t) ==
    IF HasRow(table, "session_id", session_id)
    THEN table
    ELSE Append(table, [session_id |-> session_id, head_node_id |-> node_id,
                        updated_at |-> t])

\* set_session_head at time t: update the session's row, or insert it.
set_session_head(table, session_id, node_id, t) ==
    IF HasRow(table, "session_id", session_id)
    THEN [i \in DOMAIN table |->
            IF table[i].session_id = session_id
            THEN [table[i] EXCEPT !.head_node_id = node_id, !.updated_at = t]
            ELSE table[i]]
    ELSE Append(table, [session_id |-> session_id, head_node_id |-> node_id,
                        updated_at |-> t])

\* row.head_node_id if row else None (<<>> stands for None)
get_session_head(table, session_id) ==
    IF HasRow(table, "session_id", session_id)
    THEN db_get(table, "session_id", session_id).head_node_id
    ELSE <<>>

\* A checkout that moves the head without looking the node up.
checkout_Unvalidated(req) ==
    \E t \in now..MaxTime :
        /\ heads' = set_session_head(heads, req.session_id, req.node_id, t)
        /\ now' = t
        /\ ret' = [ call |-> "checkout", req |-> req, status |-> 200,
                    head_node_id |-> get_session_head(heads', req.session_id) ]
        /\ UNCHANGED <<artifacts, nodes, store, temps, nextTmp, proc>>

\* POST /v1/checkout
checkout(req) ==
    IF ~HasRow(nodes, "node_id", req.node_id)
    THEN Fail("checkout", req, 404)
    ELSE \E t \in now..MaxTime :
            /\ heads' = set_session_head(heads, req.session_id, req.node_id, t)
            /\ now' = t
            /\ ret' = [ call |-> "checkout", req |-> req, status |-> 200,
                        head_node_id |-> get_session_head(heads', req.session_id) ]
            /\ UNCHANGED <<artifacts, nodes, store, temps, nextTmp, proc>>

\* The lists select(Node).where(session_id == ...).order_by(created_at.desc())
\* .limit(limit).all() may return: rows with equal created_at come in no
\* specified order.
list_history(table, session_id, limit) ==
    LET rows == {i \in DOMAIN table : table[i].session_id = session_id}
        k == Cardinality(rows)
        orders == {q \in [1..k -> rows] :
                      /\ \A i, j \in 1..k : i # j => q[i] # q[j]
                      /\ \A i \in 1..k : i < k =>
                            table[q[i]].created_at >= table[q[i + 1]].created_at}
    IN  {[i \in 1..(IF limit < k THEN limit ELSE k) |-> table[q[i]]] : q \in orders}

Limits == {-1, 0, 1, 2, 500, 501}

\* A history handler that clamps an out-of-range limit into 1..500.
get_history_Clamped(req) ==
    LET limit == IF req.limit <= 0 THEN 1 ELSE IF req.limit > 500 THEN 500 ELSE req.limit
    IN  \E rows \in list_history(nodes, req.session_id, limit) :
            /\ ret' = [ call |-> "get_history", req |-> req, status |-> 200,
                        items |-> [i \in DOMAIN rows |->
                            [ node_id |-> rows[i].node_id, op_type |-> rows[i].op_type,
                              created_at |-> rows[i].created_at,
                              parent_node_ids |-> rows[i].parent_node_ids,
                              primary_artifact_id |-> rows[i].primary_artifact_id ]] ]
            /\ UNCHANGED <<artifacts, nodes, heads, store, temps, nextTmp, now, proc>>

\* GET /v1/history
get_history(req) ==
    IF req.limit <= 0 \/ req.limit > 500
    THEN Fail("get_history", req, 400)
    ELSE \E rows \in list_history(nodes, req.session_id, req.limit) :
            /\ ret' = [ call |-> "get_history", req |-> req, status |-> 200,
                        items |-> [i \in DOMAIN rows |->
                            [ node_id |-> rows[i].node_id, op_type |-> rows[i].op_type,
                              created_at |-> rows[i].created_at,
                              parent_node_ids |-> rows[i].parent_node_ids,
                              primary_artifact_id |-> rows[i].primary_artifact_id ]] ]
            /\ UNCHANGED <<artifacts, nodes, heads, store, temps, nextTmp, now, proc>>

\* A get_node whose decoding always takes the except branches: the
\* parameters come back as {} and the parents as [].
get_node_Undecoded(req) ==
    IF ~HasRow(nodes, "node_id", req.node_id)
    THEN Fail("get_node", req, 404)
    ELSE /\ ret' = [ call |-> "get_node", req |-> req, status |-> 200,
                     node |-> [db_get(nodes, "node_id", req.node_id)
                                  EXCEPT !.op_params = <<>>, !.parent_node_ids = <<>>] ]
         /\ UNCHANGED <<artifacts, nodes, heads, store, temps, nextTmp, now, proc>>

\* GET /v1/nodes/{node_id}
get_node(req) ==
    IF ~HasRow(nodes, "node_id", req.node_id)
    THEN Fail("get_node", req, 404)
    ELSE /\ ret' = [ call |-> "get_node", req |-> req, status |-> 200,
                     node |-> db_get(nodes, "node_id", req.node_id) ]
         /\ UNCHANGED <<artifacts, nodes, heads, store, temps, nextTmp, now, proc>>

\* The parent of the storage root, spelled through it.
UpFromRoot == "data/artifacts/.."

\* Path.resolve(): the absolute path with ".." folded away.
resolve(path) ==
    IF path.root = UpFromRoot THEN [path EXCEPT !.root = "data"] ELSE path

\* A containment test on the spelling of the path, without resolve().
_safe_under_Unresolved(root, path) == path.root \in {root, UpFromRoot}

\* path.resolve().relative_to(root.resolve()) succeeds; the root is
\* settings.ARTIFACTS_DIR, resolved when the settings are read.
_safe_under(root, path) == resolve(path).root = root

\* A download that hands the file over by moving it: the store loses it.
fetch_artifact_Moving(req) ==
    IF ~HasRow(artifacts, "artifact_id", req.artifact_id)
    THEN Fail("fetch_artifact", req, 404)
    ELSE
    LET p == db_get(artifacts, "artifact_id", req.artifact_id).uri
    IN  IF ~_safe_under(ARTIFACTS_DIR, p)
        THEN Fail("fetch_artifact", req, 403)
        ELSE IF ~Exists(store, "path", p)
        THEN Fail("fetch_artifact", req, 404)
        ELSE /\ ret' = [ call |-> "fetch_artifact", req |-> req, status |-> 200,
                         file |-> FileAt(store, p) ]
             /\ store' = store \ {FileAt(store, p)}
             /\ UNCHANGED <<artifacts, nodes, heads, temps, nextTmp, now, proc>>

\* GET /v1/artifacts/{artifact_id}
fetch_artifact(req) ==
    IF ~HasRow(artifacts, "artifact_id", req.artifact_id)
    THEN Fail("fetch_artifact", req, 404)
    ELSE
    LET p == db_get(artifacts, "artifact_id", req.artifact_id).uri
    IN  IF ~_safe_under(ARTIFACTS_DIR, p)
        THEN Fail("fetch_artifact", req, 403)
        ELSE IF ~Exists(store, "path", p)
        THEN Fail("fetch_artifact", req, 404)
        ELSE /\ ret' = [ call |-> "fetch_artifact", req |-> req, status |-> 200,
                         file |-> FileAt(store, p) ]
             /\ UNCHANGED <<artifacts, nodes, heads, store, temps, nextTmp, now, proc>>

----------------------------------------------------------------------------
(* The service: requests from any session, one at a time *)

\* The artifact ids a client may name: those recorded, and one that is not.
ArtifactIds == {artifacts[i].artifact_id : i \in DOMAIN artifacts} \cup {None}

\* The node ids a client may name: those recorded, and one that is not.
NodeIds == {nodes[i].node_id : i \in DOMAIN nodes} \cup {<<Tok("zz")>>}

Init ==
    /\ Empty
    /\ proc = Idle

\* A client's requests to each endpoint, admitted while the graph stays
\* within cap nodes.
UploadCsv(cap) ==
    \E s \in Sessions, c \in CsvFiles, f \in Filenames :
        /\ upload_csv([session_id |-> s, file |-> c, filename |-> f])
        /\ Len(nodes') <= cap

RunSql(cap) ==
    \E s \in Sessions, a \in ArtifactIds, q \in SqlTexts :
        /\ run_sql("run_sql", [session_id |-> s, artifact_id |-> a, sql |-> q])
        /\ Len(nodes') <= cap

PlotFromArtifact(cap) ==
    \E s \in Sessions, a \in ArtifactIds, p \in PlotArgs :
        /\ plot_from_artifact("plot_from_artifact",
              [session_id |-> s, artifact_id |-> a, kind |-> p.kind, x |-> p.x, y |-> p.y])
        /\ Len(nodes') <= cap

Ask(plans, cap) ==
    \E s \in Sessions, a \in ArtifactIds, plan \in plans :
        /\ ask([session_id |-> s, artifact_id |-> a], plan)
        /\ Len(nodes') <= cap

\* One plan of each kind that llm.plan returns without an error: a text
\* answer, a query, a chart.
SomePlans ==
    {p \in Plans : p.type \in {"answer", "plot"} \/ (p.type = "sql" /\ p.sql = "select 1;")}

Checkout ==
    \E s \in Sessions, n \in NodeIds : checkout([session_id |-> s, node_id |-> n])

GetHistory ==
    \E s \in Sessions, l \in Limits : get_history([session_id |-> s, limit |-> l])

GetNode == \E n \in NodeIds : get_node([node_id |-> n])

FetchArtifact == \E a \in ArtifactIds : fetch_artifact([artifact_id |-> a])

\* Every request that can write a row, a file or a head, while the graph has
\* at most MaxNodes nodes; ask is taken with one plan of each kind.  The
\* reads are taken with the writes in NextReads, every plan in NextGraph.
Next ==
    \/ UploadCsv(MaxNodes)
    \/ RunSql(MaxNodes)
    \/ PlotFromArtifact(MaxNodes)
    \/ Ask(SomePlans, MaxNodes)
    \/ Checkout

Spec == Init /\ [][Next]_vars

\* The requests that add to the graph, while it has at most MaxGraph nodes.
NextGraph ==
    \/ UploadCsv(MaxGraph)
    \/ RunSql(MaxGraph)
    \/ PlotFromArtifact(MaxGraph)
    \/ Ask(Plans, MaxGraph)

SpecGraph == Init /\ [][NextGraph]_vars

----------------------------------------------------------------------------
(* Provenance across sessions, and the shape of the graph *)

\* The rows of the nodes that have artifact a as their primary artifact.
Producers(a) == {i \in DOMAIN nodes : nodes[i].primary_artifact_id = a}

\* C6: every parent id recorded in a node is the id of a node of the same
\* session as the child.
C6_ParentsInSameSession ==
    \A i \in DOMAIN nodes : \A p \in Range(nodes[i].parent_node_ids) :
        \E j \in DOMAIN nodes : /\ nodes[j].node_id = p
                                /\ nodes[j].session_id = nodes[i].session_id

\* Artifact a has producing nodes, and none of them is of session s2.
ProducedElsewhere(a, s2) ==
    /\ Producers(a) # {}
    /\ \A i \in Producers(a) : nodes[i].session_id # s2

\* C7: when artifact A is the primary artifact only of nodes of other
\* sessions than S2, the producing-node lookup for (A, S2) finds no node,
\* and A's Artifact row is there to read whatever the session.
C7_LookupIsSessionScoped ==
    \A s2 \in Sessions : \A i \in DOMAIN nodes :
        LET A == nodes[i].primary_artifact_id
        IN  ProducedElsewhere(A, s2) =>
                /\ _infer_parent_node_id(nodes, s2, A) = {<<>>}
                /\ HasRow(artifacts, "artifact_id", A)
                /\ db_get(artifacts, "artifact_id", A).artifact_id = A

\* Session s2 has just queried an artifact that only another session
\* produced, and its node was recorded without a parent.
C7_Witness ==
    /\ ret.call = "run_sql" /\ ret.status = 200
    /\ ret.req.session_id = "s2"
    /\ ProducedElsewhere(ret.req.artifact_id, "s2")
    /\ ret.parent_node_id = <<>>
    /\ ret.parent_node_ids = <<>>

\* C8: a Node row that exists is there after every step, with every field
\* as it was.
C8_NodesAppendOnly ==
    [][\A i \in DOMAIN nodes : \E j \in DOMAIN nodes' : nodes'[j] = nodes[i]]_vars

\* An upload has just found its node recorded by an earlier request, after
\* a checkout, with another node in the graph.
C8_Witness ==
    /\ ret.call = "upload_csv" /\ ret.status = 200
    /\ db_get(nodes, "node_id", ret.node_id).created_at < now
    /\ Len(nodes) > 1
    /\ Len(heads) > 0

\* C9: every parent id of a node is the id of a node inserted before it,
\* no two rows share an id, and no node is among its own ancestors.
ParentsOf(ids) ==
    UNION {Range(nodes[i].parent_node_ids) : i \in {j \in DOMAIN nodes : nodes[j].node_id \in ids}}

RECURSIVE AncestorsOf(_, _)
AncestorsOf(ids, k) ==
    IF k = 0 THEN ids ELSE AncestorsOf(ids \cup ParentsOf(ids), k - 1)

C9_NodesFormDag ==
    /\ \A i \in DOMAIN nodes : \A p \in Range(nodes[i].parent_node_ids) :
            \E j \in 1..(i - 1) : nodes[j].node_id = p
    /\ \A i, j \in DOMAIN nodes : nodes[i].node_id = nodes[j].node_id => i = j
    /\ \A i \in DOMAIN nodes :
            nodes[i].node_id \notin AncestorsOf(ParentsOf({nodes[i].node_id}), Len(nodes))

\* The graph is a chain: a node whose parent has a parent.
C9_Witness ==
    \E i, j \in DOMAIN nodes :
        /\ nodes[j].node_id \in Range(nodes[i].parent_node_ids)
        /\ nodes[j].parent_node_ids # <<>>

\* C10: when run_sql succeeds twice in a row for the same session, seed
\* artifact and SQL, the second call returns the node_id of the first and
\* adds no Node row.
C10_RetryReturnsSameNode ==
    [][(/\ ret.call = "run_sql" /\ ret.status = 200
        /\ ret'.call = "run_sql" /\ ret'.status = 200
        /\ ret'.req = ret.req)
            => (ret'.node_id = ret.node_id /\ nodes' = nodes)]_vars

----------------------------------------------------------------------------
(* Session heads *)

\* C11: a checkout that names no existing node answers 404 and leaves the
\* sessions table as it was: no head moves, no row is added.
C11_CheckoutUnknownNode ==
    [][\A s \in Sessions : \A n \in NodeIds :
          (~HasRow(nodes, "node_id", n) /\ checkout([session_id |-> s, node_id |-> n]))
              => (ret'.call = "checkout" /\ ret'.status = 404 /\ heads' = heads)]_vars

\* A checkout has just been refused while one session has a head and the
\* other has none.
C11_Witness ==
    /\ ret.call = "checkout" /\ ret.status = 404
    /\ Len(heads) = 1
    /\ Len(nodes) > 0

\* The head a step leaves session s with, were the claim right: the node of
\* the checkout that has just succeeded on s, else the head s had.
HeadAfter(s) ==
    IF ret'.call = "checkout" /\ ret'.status = 200 /\ ret'.req.session_id = s
    THEN ret'.req.node_id
    ELSE get_session_head(heads, s)

\* C12: checkout(S, n) of an existing node n succeeds, with or without a head
\* row for S, and get_session_head(S) is always the node of the most recent
\* successful checkout of S, None while there has been none.
C12_HeadIsLastCheckout ==
    /\ \A s \in Sessions : get_session_head(heads, s) = <<>>
    /\ [][/\ \A s \in Sessions : get_session_head(heads', s) = HeadAfter(s)
          /\ \A s \in Sessions : \A n \in NodeIds :
                (HasRow(nodes, "node_id", n) /\ checkout([session_id |-> s, node_id |-> n]))
                    => /\ ret'.call = "checkout" /\ ret'.status = 200
                       /\ ret'.req = [session_id |-> s, node_id |-> n]
                       /\ ret'.head_node_id = n]_vars

\* Both sessions have a head row, and the checkout that has just succeeded
\* moved the head of the session whose row is the older one.
C12_Witness ==
    /\ ret.call = "checkout" /\ ret.status = 200
    /\ Len(heads) = 2 /\ Len(nodes) = 2
    /\ ret.req.session_id = heads[1].session_id
    /\ heads[1].head_node_id = ret.req.node_id
    /\ heads[1].head_node_id # heads[2].head_node_id

\* The position of a listed node in the nodes table, which is insertion order.
InsertedAt(node_id) == CHOOSE i \in DOMAIN nodes : nodes[i].node_id = node_id

\* The rows of the nodes table that belong to session s.
NodesOf(s) == {i \in DOMAIN nodes : nodes[i].session_id = s}

\* C13: a history listing of session S holds only nodes of S, min(limit, number
\* of nodes of S) of them, later-inserted nodes first, and never an older node
\* while a newer one is left out.
C13_HistoryMostRecentFirst ==
    (ret.call = "get_history" /\ ret.status = 200) =>
        LET S == ret.req.session_id
            listed == {InsertedAt(ret.items[i].node_id) : i \in DOMAIN ret.items}
            k == Cardinality(NodesOf(S))
        IN  /\ listed \subseteq NodesOf(S)
            /\ Len(ret.items) = (IF ret.req.limit < k THEN ret.req.limit ELSE k)
            /\ \A i, j \in DOMAIN ret.items :
                  i < j => InsertedAt(ret.items[i].node_id) > InsertedAt(ret.items[j].node_id)
            /\ \A y \in listed : \A x \in NodesOf(S) : x > y => x \in listed

\* C14: a history request whose limit is below 1 or above 500 is answered with
\* a validation error that carries no nodes; a limit in 1..500 is accepted and
\* answered with a listing.
C14_LimitIsValidated ==
    [][\A s \in Sessions : \A l \in Limits :
          get_history([session_id |-> s, limit |-> l]) =>
              IF l < 1 \/ l > 500
              THEN ret' = [call |-> "get_history", status |-> 400]
              ELSE /\ ret'.call = "get_history" /\ ret'.status = 200
                   /\ ret'.req.limit = l
                   /\ Len(ret'.items) <= l]_vars

\* A history request has just been refused although the table holds nodes a
\* clamped limit would have listed.
C14_Witness ==
    /\ ret = [call |-> "get_history", status |-> 400]
    /\ Len(nodes) = 2
    /\ nodes[1].session_id = nodes[2].session_id

----------------------------------------------------------------------------
(* Requests that name a parent node *)

\* SQLRequest.model_validate(body): the declared fields; pydantic ignores
\* any other key of the body, parent_node_id among them.
SQLRequest(body) ==
    [session_id |-> body.session_id, artifact_id |-> body.artifact_id, sql |-> body.sql]

\* PlotRequest.model_validate(body)
PlotRequest(body) ==
    [ session_id |-> body.session_id, artifact_id |-> body.artifact_id,
      kind |-> body.kind, x |-> body.x, y |-> body.y ]

\* AskRequest.model_validate(body); the message is read by the planner only.
AskRequest(body) == [session_id |-> body.session_id, artifact_id |-> body.artifact_id]

\* The bodies a client posts when it names a parent for the operation.
SqlBody(s, a, q, p) ==
    [session_id |-> s, artifact_id |-> a, sql |-> q, parent_node_id |-> p]

PlotBody(s, a, pl, p) ==
    [ session_id |-> s, artifact_id |-> a, kind |-> pl.kind, x |-> pl.x, y |-> pl.y,
      parent_node_id |-> p ]

AskBody(s, a, p) == [session_id |-> s, artifact_id |-> a, parent_node_id |-> p]

\* The parents a client may name: the nodes recorded so far.
ParentsSupplied == {nodes[i].node_id : i \in DOMAIN nodes}

RunSqlWithParent ==
    \E s \in Sessions, a \in ArtifactIds, q \in SqlTexts, p \in ParentsSupplied :
        /\ run_sql("run_sql", SQLRequest(SqlBody(s, a, q, p)))
        /\ Len(nodes') <= MaxNodes

PlotWithParent ==
    \E s \in Sessions, a \in ArtifactIds, pl \in PlotArgs, p \in ParentsSupplied :
        /\ plot_from_artifact("plot_from_artifact", PlotRequest(PlotBody(s, a, pl, p)))
        /\ Len(nodes') <= MaxNodes

AskWithParent ==
    \E s \in Sessions, a \in ArtifactIds, plan \in Plans, p \in ParentsSupplied :
        /\ ask(AskRequest(AskBody(s, a, p)), plan)
        /\ Len(nodes') <= MaxNodes

NextParent ==
    \/ UploadCsv(MaxNodes)
    \/ RunSqlWithParent
    \/ PlotWithParent
    \/ AskWithParent

SpecParent == Init /\ [][NextParent]_vars

\* C15: a query, plot or ask request that names a parent node records its
\* node with exactly that parent, whichever nodes produced the seed artifact.
C15_ExplicitParentWins ==
    [][\A s \in Sessions : \A a \in ArtifactIds : \A p \in ParentsSupplied :
          /\ \A q \in SqlTexts :
                (run_sql("run_sql", SQLRequest(SqlBody(s, a, q, p))) /\ ret'.status = 200)
                    => ret'.parent_node_ids = <<p>>
          /\ \A pl \in PlotArgs :
                (/\ plot_from_artifact("plot_from_artifact", PlotRequest(PlotBody(s, a, pl, p)))
                 /\ ret'.status = 200)
                    => ret'.parent_node_ids = <<p>>
          /\ \A plan \in Plans :
                (/\ ask(AskRequest(AskBody(s, a, p)), plan)
                 /\ ret'.status = 200 /\ plan.type \in {"sql", "plot"})
                    => ret'.parent_node_ids = <<p>>]_vars

----------------------------------------------------------------------------
(* Parent inference *)

\* The rows of the nodes table, before the step, that session s recorded with
\* primary artifact a.
ProducedBy(s, a) ==
    {i \in DOMAIN nodes : nodes[i].session_id = s /\ nodes[i].primary_artifact_id = a}

\* The row inserted last among a non-empty set of rows.
Latest(rows) == CHOOSE i \in rows : \A j \in rows : j <= i

\* C16: the parent inferred for a query or plot on seed artifact A in session
\* S is the node of S with primary artifact A that was inserted last.
C16_InferredParentIsLatest ==
    [][(ret'.call \in {"run_sql", "plot_from_artifact"} /\ ret'.status = 200) =>
          LET rows == ProducedBy(ret'.req.session_id, ret'.req.artifact_id)
          IN  rows # {} => ret'.parent_node_id = nodes[Latest(rows)].node_id]_vars

\* C17: a query or plot whose session has no node with the seed artifact as
\* its primary artifact is recorded as a root, and so is every upload.
C17_NoProducerMeansRoot ==
    [][/\ (ret'.call = "upload_csv" /\ ret'.status = 200) => ret'.parent_node_ids = <<>>
       /\ (/\ ret'.call \in {"run_sql", "plot_from_artifact"} /\ ret'.status = 200
           /\ ProducedBy(ret'.req.session_id, ret'.req.artifact_id) = {})
              => ret'.parent_node_ids = <<>>]_vars

----------------------------------------------------------------------------
(* Concurrent checkouts.  A checkout looks the node up, then                 *)
(* set_session_head reads the session's row in one statement and writes it   *)
(* at db.commit() in another; the commits of two handlers are serialised by  *)
(* the database, the reads are not.                                          *)

InitCheckoutRace ==
    /\ Empty
    /\ ret = NoReturn
    /\ proc = [h \in Handlers |-> Idle]

\* The uploads that give the checkouts nodes to point at.
RaceUpload ==
    \E s \in Sessions, c \in CsvFiles, f \in Filenames :
        /\ upload_csv([session_id |-> s, file |-> c, filename |-> f])
        /\ Len(nodes') <= MaxNodes

\* checkout.py:11-14: db.get(Node, req.node_id), 404 when there is none.
RaceCheckout(h, req) ==
    /\ proc[h].pc = "idle"
    /\ proc' = [proc EXCEPT ![h] =
                    IF HasRow(nodes, "node_id", req.node_id)
                    THEN [pc |-> "get", call |-> "checkout", args |-> req]
                    ELSE [pc |-> "returned", call |-> "checkout", args |-> req,
                          status |-> 404]]
    /\ UNCHANGED <<artifacts, nodes, heads, store, temps, nextTmp, now, ret>>

\* meta.py:73-74: row = db.get(SessionRow, session_id); now = int(time.time())
RaceGetHead(h) ==
    /\ proc[h].pc = "get"
    /\ \E t \in now..MaxTime :
          /\ now' = t
          /\ proc' = [proc EXCEPT ![h] =
                         [pc |-> "commit", call |-> "checkout", args |-> proc[h].args,
                          row |-> db_get(heads, "session_id", proc[h].args.session_id),
                          t |-> t]]
    /\ UNCHANGED <<artifacts, nodes, heads, store, temps, nextTmp, ret>>

\* The UPDATE the unit of work flushes for a loaded row: it sets the columns
\* whose new value differs from the value that was loaded, and only those.
Flush(table, loaded, node_id, t) ==
    [i \in DOMAIN table |->
        IF table[i].session_id = loaded.session_id
        THEN [table[i] EXCEPT
                !.head_node_id = IF node_id # loaded.head_node_id THEN node_id ELSE @,
                !.updated_at = IF t # loaded.updated_at THEN t ELSE @]
        ELSE table[i]]

\* meta.py:75-81: a new row when the read found none, else the loaded row
\* with its two fields assigned; db.add(row); db.commit().  The INSERT of a
\* session_id that has got a row meanwhile raises IntegrityError, which
\* nothing catches: the request ends with status 500.
RaceCommitHead(h) ==
    /\ proc[h].pc = "commit"
    /\ LET req == proc[h].args
           try == db_insert(heads, "session_id",
                      [session_id |-> req.session_id, head_node_id |-> req.node_id,
                       updated_at |-> proc[h].t])
       IN  IF proc[h].row = NoRow
           THEN /\ heads' = try.table
                /\ proc' = [proc EXCEPT ![h] =
                               IF try.ok
                               THEN [pc |-> "refresh", call |-> "checkout", args |-> req]
                               ELSE [pc |-> "returned", call |-> "checkout", args |-> req,
                                     status |-> 500]]
           ELSE /\ heads' = Flush(heads, proc[h].row, req.node_id, proc[h].t)
                /\ proc' = [proc EXCEPT ![h] =
                               [pc |-> "refresh", call |-> "checkout", args |-> req]]
    /\ UNCHANGED <<artifacts, nodes, store, temps, nextTmp, now, ret>>

\* meta.py:82-83 and checkout.py:17: db.refresh(row) reads the row as it is
\* now; the response carries its head_node_id.
RaceRefreshHead(h) ==
    /\ proc[h].pc = "refresh"
    /\ proc' = [proc EXCEPT ![h] =
                   [pc |-> "returned", call |-> "checkout", args |-> proc[h].args,
                    status |-> 200,
                    head_node_id |-> get_session_head(heads, proc[h].args.session_id)]]
    /\ UNCHANGED <<artifacts, nodes, heads, store, temps, nextTmp, now, ret>>

\* The handler has answered and may serve another request.
RaceAnswer(h) ==
    /\ proc[h].pc = "returned"
    /\ proc' = [proc EXCEPT ![h] = Idle]
    /\ UNCHANGED <<artifacts, nodes, heads, store, temps, nextTmp, now, ret>>

NextCheckoutRace ==
    \/ RaceUpload
    \/ \E h \in Handlers :
          \/ \E s \in Sessions, n \in NodeIds :
                RaceCheckout(h, [session_id |-> s, node_id |-> n])
          \/ RaceGetHead(h)
          \/ RaceCommitHead(h)
          \/ RaceRefreshHead(h)
          \/ RaceAnswer(h)

SpecCheckoutRace == InitCheckoutRace /\ [][NextCheckoutRace]_vars

\* C18: however two checkouts of one session interleave, with or without a
\* head row at the start, a checkout of an existing node ends without error,
\* and each commit leaves the head at the node its checkout named.
C18_ConcurrentCheckoutsLastWins ==
    /\ [](\A h \in Handlers :
            (proc[h].pc = "returned" /\ HasRow(nodes, "node_id", proc[h].args.node_id))
                => proc[h].status = 200)
    /\ [][\A h \in Handlers :
            (proc[h].pc = "commit" /\ proc'[h].pc # "commit")
                => get_session_head(heads', proc[h].args.session_id) = proc[h].args.node_id]_vars

----------------------------------------------------------------------------
(* The life of a head *)

\* C19: a head, once set, is never unset again, and in every state a head
\* that is set is the id of a row of the nodes table.
C19_HeadStaysSetAndValid ==
    /\ [](\A i \in DOMAIN heads :
            /\ heads[i].head_node_id # <<>>
            /\ HasRow(nodes, "node_id", heads[i].head_node_id))
    /\ [][\A s \in Sessions :
            get_session_head(heads, s) # <<>> => get_session_head(heads', s) # <<>>]_vars

\* Both sessions point at a node, and the checkout that has just succeeded
\* moved a head that was already set (its row is the older one).
C19_Witness ==
    /\ ret.call = "checkout" /\ ret.status = 200
    /\ Len(heads) = 2 /\ Len(nodes) = 2
    /\ ret.req.session_id = heads[1].session_id
    /\ heads[1].head_node_id = nodes[1].node_id
    /\ heads[2].head_node_id = nodes[2].node_id
    /\ heads[1].updated_at > heads[2].updated_at

\* C20: only a successful checkout changes the sessions table; an upload,
\* query, plot or ask, and the inserts they make, leave every head as it was,
\* the acting session's included.
C20_OnlyCheckoutMovesHeads ==
    [][/\ heads' # heads => (ret'.call = "checkout" /\ ret'.status = 200)
       /\ ret'.call \in {"upload_csv", "run_sql", "plot_from_artifact", "ask"}
             => \A s \in Sessions : get_session_head(heads', s) = get_session_head(heads, s)]_vars

\* A session has just recorded a second node; its head still points at its
\* first node, and the other session, which has never checked out, has none.
C20_Witness ==
    /\ ret.call = "run_sql" /\ ret.status = 200
    /\ Len(nodes) = 2 /\ ret.node_id = nodes[2].node_id
    /\ nodes[1].session_id = ret.req.session_id
    /\ Len(heads) = 1
    /\ heads[1].session_id = ret.req.session_id
    /\ heads[1].head_node_id = nodes[1].node_id

----------------------------------------------------------------------------
(* Concurrent puts.  A put hashes its temporary file, tests whether the      *)
(* destination exists, and then renames the temporary file onto it or        *)
(* deletes it; other handlers and readers run between these steps.           *)

\* A file cut short: what a reader would find in a destination that is
\* being copied to.  No digest is 0.
Partial == 0

\* A move done as a copy: the destination appears before its bytes do.
replace_Copying(files, tmpfiles, tmp, dst) ==
    [ store |-> {f \in files : f.path # dst} \cup {[path |-> dst, data |-> Partial]},
      temps |-> {f \in tmpfiles : f.name # tmp} ]

\* Path.replace(dst), os.replace: one rename; the destination is the old
\* file or the whole new one, and the source name is gone.
replace(files, tmpfiles, tmp, dst) ==
    [ store |-> {f \in files : f.path # dst}
                  \cup {[path |-> dst, data |-> (CHOOSE f \in tmpfiles : f.name = tmp).data]},
      temps |-> {f \in tmpfiles : f.name # tmp} ]

\* Path.unlink(missing_ok=True)
unlink(files, tmpfiles, tmp) ==
    [store |-> files, temps |-> {f \in tmpfiles : f.name # tmp}]

InitPutRace ==
    /\ Empty
    /\ ret = NoReturn
    /\ proc = [h \in Handlers |-> Idle]

\* store_parquet(temp) / store_file(temp, ext) is called on a temporary file
\* no other handler has been given.
RacePut(h, tmp, ext) ==
    /\ proc[h].pc = "idle"
    /\ Exists(temps, "name", tmp)
    /\ \A g \in Handlers : proc[g].pc \in {"hash", "exists", "move"} => proc[g].tmp # tmp
    /\ proc' = [proc EXCEPT ![h] = [pc |-> "hash", tmp |-> tmp, ext |-> ext]]
    /\ UNCHANGED <<artifacts, nodes, heads, store, temps, nextTmp, now, ret>>

\* digest = self._hash_file(temp); dst = self._dst_for(digest, ext)
RacePutHash(h) ==
    /\ proc[h].pc = "hash"
    /\ LET data == (CHOOSE f \in temps : f.name = proc[h].tmp).data
       IN  proc' = [proc EXCEPT ![h] =
                       [ pc |-> "exists", tmp |-> proc[h].tmp, ext |-> proc[h].ext,
                         data |-> data, digest |-> _hash_file(data),
                         dst |-> _dst_for(_hash_file(data), proc[h].ext) ]]
    /\ UNCHANGED <<artifacts, nodes, heads, store, temps, nextTmp, now, ret>>

\* if not dst.exists():
RacePutExists(h) ==
    /\ proc[h].pc = "exists"
    /\ proc' = [proc EXCEPT ![h] =
                   [ pc |-> "move", tmp |-> proc[h].tmp, ext |-> proc[h].ext,
                     data |-> proc[h].data, digest |-> proc[h].digest, dst |-> proc[h].dst,
                     exists |-> Exists(store, "path", proc[h].dst) ]]
    /\ UNCHANGED <<artifacts, nodes, heads, store, temps, nextTmp, now, ret>>

\* temp.replace(dst), or temp.unlink(missing_ok=True); return digest, dst
RacePutMove(h) ==
    /\ proc[h].pc = "move"
    /\ LET r == IF ~proc[h].exists
                THEN replace(store, temps, proc[h].tmp, proc[h].dst)
                ELSE unlink(store, temps, proc[h].tmp)
       IN  /\ store' = r.store
           /\ temps' = r.temps
    /\ proc' = [proc EXCEPT ![h] = [proc[h] EXCEPT !.pc = "returned"]]
    /\ UNCHANGED <<artifacts, nodes, heads, nextTmp, now, ret>>

\* The caller has taken the result; the handler may put again.
RacePutDone(h) ==
    /\ proc[h].pc = "returned"
    /\ proc' = [proc EXCEPT ![h] = Idle]
    /\ UNCHANGED <<artifacts, nodes, heads, store, temps, nextTmp, now, ret>>

\* A reader opens a destination path and reads what is there.
RaceRead(dst) ==
    /\ ret' = IF Exists(store, "path", dst)
              THEN [call |-> "read", path |-> dst, found |-> TRUE,
                    data |-> (CHOOSE f \in store : f.path = dst).data]
              ELSE [call |-> "read", path |-> dst, found |-> FALSE]
    /\ UNCHANGED <<artifacts, nodes, heads, store, temps, nextTmp, now, proc>>

NextPutRace ==
    \/ \E data \in Digests : WriteTemp(data)
    \/ \E d \in Digests, ext \in Suffixes : RaceRead(_dst_for(d, ext))
    \/ \E h \in Handlers :
          \/ \E tmp \in 1..MaxTemps, ext \in Suffixes : RacePut(h, tmp, ext)
          \/ RacePutHash(h)
          \/ RacePutExists(h)
          \/ RacePutMove(h)
          \/ RacePutDone(h)

SpecPutRace == InitPutRace /\ [][NextPutRace]_vars

\* C21: while puts and a reader interleave, a destination is absent or holds
\* the whole content it is named after, and so is what the reader saw; two
\* puts of the same bytes to one destination return the same id, and once
\* both are through one file is at the destination and no temporary file of
\* theirs is left.
C21_ConcurrentPutsAreAtomic ==
    /\ \A f \in store : _hash_file(f.data) = f.path.digest
    /\ (ret.call = "read" /\ ret.found) => _hash_file(ret.data) = ret.path.digest
    /\ \A h, g \in Handlers :
          (/\ h # g /\ proc[h].pc = "returned" /\ proc[g].pc = "returned"
           /\ proc[h].data = proc[g].data /\ proc[h].ext = proc[g].ext)
              => /\ proc[h].digest = proc[g].digest
                 /\ proc[h].dst = proc[g].dst
                 /\ Cardinality({f \in store : f.path = proc[h].dst}) = 1
                 /\ ~Exists(temps, "name", proc[h].tmp)
                 /\ ~Exists(temps, "name", proc[g].tmp)

\* Two puts of the same bytes both found no destination and both renamed
\* onto it; both have returned, and a reader has read the destination.
C21_Witness ==
    /\ proc[1].pc = "returned" /\ proc[2].pc = "returned"
    /\ proc[1].dst = proc[2].dst
    /\ ~proc[1].exists /\ ~proc[2].exists
    /\ ret.call = "read" /\ ret.found /\ ret.path = proc[1].dst

----------------------------------------------------------------------------
(* The store as a set of contents *)

\* C22: whatever was put, under whatever extensions, no two files of the
\* store hold the same bytes, and a put of bytes that were put before returns
\* the id the earlier put returned.
C22_StoreHoldsNoDuplicates ==
    /\ \A f, g \in store : f.data = g.data => f.path = g.path
    /\ (ret.call = "put" /\ ret.prev.call = "put" /\ ret.prev.data = ret.data)
          => ret.digest = ret.prev.digest

----------------------------------------------------------------------------
(* Requests whose steps can fail.  No handler catches what store_parquet,    *)
(* store_file, insert_artifact or insert_node raise (apart from the          *)
(* IntegrityError the inserts handle themselves): the request ends there,    *)
(* and what the earlier steps wrote stays written.                           *)

\* The bound on the tables and the store in a run with failures, where a
\* request can add a file or an artifact row without adding a node.
Small ==
    /\ Len(nodes') <= MaxNodes
    /\ Len(artifacts') <= MaxNodes
    /\ Cardinality(store') <= MaxNodes

\* The runs with failures are those of one session.
FaultSessions == {"s1"}

FaultyUploadCsv ==
    \E s \in FaultSessions, c \in CsvFiles, f \in Filenames :
        /\ upload_csv_then([session_id |-> s, file |-> c, filename |-> f], TRUE)
        /\ Small

FaultyRunSql ==
    \E s \in FaultSessions, a \in ArtifactIds, q \in SqlTexts :
        /\ run_sql_then("run_sql", [session_id |-> s, artifact_id |-> a, sql |-> q],
                        TRUE)
        /\ Small

FaultyPlotFromArtifact ==
    \E s \in FaultSessions, a \in ArtifactIds, p \in PlotArgs :
        /\ plot_from_artifact_then("plot_from_artifact",
              [session_id |-> s, artifact_id |-> a, kind |-> p.kind, x |-> p.x, y |-> p.y],
              TRUE)
        /\ Small

FaultyAsk ==
    \E s \in FaultSessions, a \in ArtifactIds, plan \in Plans :
        /\ ask_then([session_id |-> s, artifact_id |-> a], plan, TRUE)
        /\ Small

NextFaults ==
    \/ FaultyUploadCsv
    \/ FaultyRunSql
    \/ FaultyPlotFromArtifact
    \/ FaultyAsk

SpecFaults == Init /\ [][NextFaults]_vars

\* C23: in every state, also after a put, an insert or any later step of a
\* request has failed, each artifact row names a file that is in the store
\* and holds the content the row's artifact_id is the digest of.
C23_RowsNameStoredContent ==
    \A i \in DOMAIN artifacts :
        /\ Exists(store, "path", artifacts[i].uri)
        /\ _hash_file(FileAt(store, artifacts[i].uri).data) = artifacts[i].artifact_id

\* A put has just failed in a request whose artifact would have been new:
\* the table holds rows, and none for that request's content.
C23_Witness ==
    /\ ret.call = "plot_from_artifact" /\ ret.status = 500 /\ ret.raised = "store"
    /\ Len(artifacts) = 1
    /\ Cardinality(store) = 1

\* The step runs the request that has just failed again, and this time no
\* step of it raises.
Rerun ==
    /\ "raised" \in DOMAIN ret /\ ret.raised \in {"insert_artifact", "insert_node"}
    /\ IF ret.call = "upload_csv" THEN upload_csv(ret.req)
       ELSE IF "sql" \in DOMAIN ret.req THEN run_sql(ret.call, ret.req)
       ELSE plot_from_artifact(ret.call, ret.req)

\* C24: when a request is run again after its put succeeded and its
\* insert_artifact or insert_node failed, it succeeds; the put finds the file
\* and adds none; the artifact has one row (the one the failed run inserted,
\* or a new one) and the node has one row: the tables and the store are
\* those of a run without the failure.
C24_GarbageIsRecoverable ==
    [][Rerun =>
          /\ ret'.status = 200
          /\ store' = store /\ temps' = temps
          /\ Cardinality({i \in DOMAIN artifacts' :
                            artifacts'[i].artifact_id = ret'.artifact_id}) = 1
          /\ Exists(store, "path", db_get(artifacts', "artifact_id", ret'.artifact_id).uri)
          /\ _hash_file(FileAt(store, db_get(artifacts', "artifact_id", ret'.artifact_id).uri).data)
                = ret'.artifact_id
          /\ IF HasRow(artifacts, "artifact_id", ret'.artifact_id)
             THEN artifacts' = artifacts
             ELSE /\ ret.raised = "insert_artifact"
                  /\ Len(artifacts') = Len(artifacts) + 1
                  /\ \A i \in DOMAIN artifacts : artifacts'[i] = artifacts[i]
          /\ Cardinality({i \in DOMAIN nodes' : nodes'[i].node_id = ret'.node_id}) = 1
          /\ \A i \in DOMAIN nodes : nodes'[i] = nodes[i]]_vars

\* A query has just failed at insert_artifact: its result is in the store,
\* no row names it, and the query can be run again.
C24_Witness ==
    /\ "raised" \in DOMAIN ret /\ ret.raised = "insert_artifact"
    /\ ret.call = "run_sql"
    /\ Cardinality(store) = 2 /\ Len(artifacts) = 1 /\ Len(nodes) = 1
    /\ \E f \in store : ~HasRow(artifacts, "uri", f.path)

----------------------------------------------------------------------------
(* Downloads from rows of any location.  insert_artifact stores the uri it   *)
(* is given; the file system holds files outside the storage root too.       *)

\* A file next to the storage root, not in it.
OutsideFile == [path |-> [root |-> "data", digest |-> 1, suffix |-> "parquet"], data |-> 3]

\* The locations a row may hold: the destination of its content, a spelling
\* that climbs out of the root to the outside file, and a directory elsewhere.
Locations(d) ==
    { _dst_for(d, "parquet"),
      [root |-> UpFromRoot, digest |-> d, suffix |-> "parquet"],
      [root |-> "/etc", digest |-> d, suffix |-> "parquet"] }

FetchArtifactArgs ==
    UNION { { [ artifact_id |-> d, session_id |-> "s1", kind |-> "table",
                format |-> "parquet", uri |-> u, bytes_ |-> 10 * d, rows |-> 3,
                cols |-> 1 ] : u \in Locations(d) } : d \in Digests }

InitFetch ==
    /\ artifacts = <<>> /\ nodes = <<>> /\ heads = <<>>
    /\ store = {OutsideFile}
    /\ temps = {} /\ nextTmp = 1 /\ now = 0
    /\ ret = NoReturn
    /\ proc = Idle

NextFetch ==
    \/ \E data \in Digests : WriteTemp(data)
    \/ \E tmp \in 1..MaxTemps : StoreParquet(tmp)
    \/ \E a \in FetchArtifactArgs, t \in 0..MaxTime : ApiInsertArtifact(a, t)
    \/ FetchArtifact

SpecFetch == InitFetch /\ [][NextFetch]_vars

\* The location lies in the storage root once it has been resolved.
Descendant(path) == resolve(path).root = ARTIFACTS_DIR

\* C25: a download is answered with a file only when the artifact has a row,
\* the row's resolved location lies in the storage root and the file is
\* there; an unknown id is answered 404, and a row whose location resolves
\* outside the root is answered 403 whatever the location is.
C25_DownloadStaysUnderRoot ==
    [][\A a \in ArtifactIds \cup Digests :
          fetch_artifact([artifact_id |-> a]) =>
              LET row == db_get(artifacts, "artifact_id", a)
              IN  /\ ~HasRow(artifacts, "artifact_id", a) => ret'.status = 404
                  /\ (HasRow(artifacts, "artifact_id", a) /\ ~Descendant(row.uri))
                        => ret'.status = 403
                  /\ ret'.status = 200 =>
                        /\ HasRow(artifacts, "artifact_id", a)
                        /\ Descendant(row.uri)
                        /\ Exists(store, "path", row.uri)
                        /\ ret'.file = FileAt(store, row.uri)
                        /\ ret'.file.path.root = ARTIFACTS_DIR]_vars

\* A download has just been refused with 403: the row of the artifact names
\* the file outside the root through "..", and that file exists.
C25_Witness ==
    /\ ret = [call |-> "fetch_artifact", status |-> 403]
    /\ Len(artifacts) = 1
    /\ artifacts[1].uri.root = UpFromRoot
    /\ Exists(store, "path", resolve(artifacts[1].uri))

----------------------------------------------------------------------------
(* Sessions and the rows they share *)

C27_SessionIsPartOfNodeId ==
    /\ [](\A i, j \in DOMAIN nodes :
            /\ nodes[i].node_id = nodes[j].node_id => i = j
            /\ nodes[i].node_id = _hash_node(nodes[i].session_id, nodes[i].parent_node_ids,
                                             nodes[i].op_type, nodes[i].op_params)
            /\ nodes[i].session_id # nodes[j].session_id
                  => nodes[i].node_id # nodes[j].node_id)
    /\ [][("node_id" \in DOMAIN ret' /\ ret'.status = 200) =>
            db_get(nodes', "node_id", ret'.node_id).session_id = ret'.req.session_id]_vars

\* Both sessions have recorded the same operation with the same parameters
\* and parents: two rows, two ids, each row with its own session.
C27_Witness ==
    /\ Len(nodes) = 2
    /\ nodes[1].session_id # nodes[2].session_id
    /\ nodes[1].op_type = nodes[2].op_type
    /\ nodes[1].op_params = nodes[2].op_params
    /\ nodes[1].parent_node_ids = nodes[2].parent_node_ids
    /\ nodes[1].node_id # nodes[2].node_id
    /\ ret.node_id = nodes[2].node_id /\ ret.req.session_id = nodes[2].session_id


----------------------------------------------------------------------------
(* One session's requests and another session's rows *)

\* The session a step acted for, as a set: empty for a request that names no
\* session and for one that was turned down.
Acting(r) ==
    IF "req" \in DOMAIN r /\ "session_id" \in DOMAIN r.req
    THEN {r.req.session_id}
    ELSE {}

\* C28: a request that acts for session S adds no node row of another session,
\* changes no node row at all, and neither adds nor changes the head row of a
\* session other than S.
C28_OtherSessionsAreUntouched ==
    [][/\ \A i \in DOMAIN nodes' :
             IF i \in DOMAIN nodes
             THEN nodes'[i] = nodes[i]
             ELSE nodes'[i].session_id \in Acting(ret')
       /\ \A s \in Sessions \ Acting(ret') :
             /\ HasRow(heads', "session_id", s) = HasRow(heads, "session_id", s)
             /\ HasRow(heads, "session_id", s)
                   => db_get(heads', "session_id", s) = db_get(heads, "session_id", s)]_vars

\* Both sessions have nodes and heads, the last request was a checkout of one
\* session, and the other session's head is still on its own, different node.
C28_Witness ==
    /\ ret.call = "checkout" /\ ret.status = 200
    /\ \E s \in Sessions \ {ret.req.session_id} :
          /\ HasRow(heads, "session_id", s)
          /\ get_session_head(heads, s) # ret.req.node_id
          /\ \E i \in DOMAIN nodes : nodes[i].session_id = s
    /\ \E i \in DOMAIN nodes : nodes[i].session_id = ret.req.session_id


----------------------------------------------------------------------------
(* The parent list a node row holds *)

\* C29: in every reachable state the parent list of each node row is in
\* ascending order without a duplicate and without an empty id, and it is the
\* list serialized into the row's node_id.
C29_StoredParentsAreNormalized ==
    \A i \in DOMAIN nodes :
        LET p == nodes[i].parent_node_ids
        IN  /\ \A k \in DOMAIN p : p[k] # <<>>
            /\ \A k, l \in DOMAIN p : k < l => SeqLess(p[k], p[l])
            /\ nodes[i].node_id =
                  hashlib_sha256(
                      DumpsDict(nodes[i].op_params)
                      \o DumpsList(p)
                      \o <<Tok(nodes[i].session_id)>>
                      \o <<Tok(nodes[i].op_type)>>)

\* A row stored by a call whose parent list was out of order, with a
\* duplicate and an empty id: it holds the two parents in order.
C29_Witness ==
    /\ ret.call = "insert_node" /\ ~ret.error
    /\ ret.args.parent_node_ids = <<IdB, <<>>, IdA, IdB>>
    /\ Len(nodes) = 1
    /\ nodes[1] = ret.row
    /\ nodes[1].parent_node_ids = <<IdA, IdB>>
    /\ nodes[1].created_at = now


----------------------------------------------------------------------------
(* Nodes written through insert_node and read back through get_node *)

\* The ids insert_node gives to the calls of ApiNodeArgs.
ApiNodeIds ==
    { _hash_node(n.session_id, n.parent_node_ids, n.op_type, n.op_params) : n \in ApiNodeArgs }

ApiGetNode(id) == get_node([node_id |-> id])

NextNode ==
    \/ \E n \in ApiNodeArgs, t \in 0..MaxTime : ApiInsertNode(n, t)
    \/ \E id \in ApiNodeIds : ApiGetNode(id)

SpecNode == InitMeta /\ [][NextNode]_vars

\* dict.__eq__ on dicts given as item sequences: the same keys with the same
\* values, in whatever order.
DictEq(d, e) == Len(d) = Len(e) /\ Range(d) = Range(e)

----------------------------------------------------------------------------
(* What a history item carries *)

\* C31: every item of a history response carries the parent list and the
\* parameter map of its node, equal to the values stored in the node's row.
C31_HistoryItemsCarryParentsAndParams ==
    (ret.call = "get_history" /\ ret.status = 200) =>
        \A i \in DOMAIN ret.items :
            LET row == db_get(nodes, "node_id", ret.items[i].node_id)
            IN  /\ ret.items[i].parent_node_ids = row.parent_node_ids
                /\ "op_params" \in DOMAIN ret.items[i]
                /\ DictEq(ret.items[i].op_params, row.op_params)


----------------------------------------------------------------------------
(* The response and the stored graph *)

\* C32: after a successful upload, query or plot the node row whose id the
\* response returns has the artifact the response returns as its primary
\* artifact.
C32_ResponseAgreesWithGraph ==
    (ret.call \in {"upload_csv", "run_sql", "plot_from_artifact"} /\ ret.status = 200) =>
        /\ HasRow(nodes, "node_id", ret.node_id)
        /\ db_get(nodes, "node_id", ret.node_id).primary_artifact_id = ret.artifact_id


\* C33: when an upload, a query or a plot has returned artifact A to session
\* S, some node row of session S has A as its primary artifact.
C33_ReturnedArtifactHasProvenance ==
    (ret.call \in {"upload_csv", "run_sql", "plot_from_artifact"} /\ ret.status = 200) =>
        \E i \in DOMAIN nodes :
            /\ nodes[i].session_id = ret.req.session_id
            /\ nodes[i].primary_artifact_id = ret.artifact_id


----------------------------------------------------------------------------
(* Whose node a head points to *)

\* C34: in every reachable state the head of a session points to a node of
\* that session.
C34_HeadPointsIntoOwnSession ==
    \A i \in DOMAIN heads :
        /\ HasRow(nodes, "node_id", heads[i].head_node_id)
        /\ db_get(nodes, "node_id", heads[i].head_node_id).session_id = heads[i].session_id


----------------------------------------------------------------------------
(* The artifact a node names *)

\* C35: in every reachable state, those reached through a failed step of an
\* upload, a query or a plot included, each node row has a primary artifact
\* id that is not null and is the id of an artifact row.
C35_NodesNameRecordedArtifacts ==
    \A i \in DOMAIN nodes :
        /\ nodes[i].primary_artifact_id # None
        /\ HasRow(artifacts, "artifact_id", nodes[i].primary_artifact_id)

\* A request ended in insert_artifact or insert_node raising, after a put
\* that left a file no row names, while the graph has a node.
C35_Witness ==
    /\ "raised" \in DOMAIN ret
    /\ ret.raised \in {"insert_artifact", "insert_node"}
    /\ Len(nodes) >= 1
    /\ \E f \in store : \A i \in DOMAIN artifacts : artifacts[i].uri # f.path


----------------------------------------------------------------------------
(* Requests that are turned down.  Artifact rows also come from the         *)
(* metadata API called directly, so that a row can name a file the store    *)
(* does not hold.                                                            *)

\* The row the metadata API is given: a table no upload of the model has
\* written.
RowsWithoutFile ==
    {a \in ApiArtifactArgs : a.artifact_id = 2 /\ a.format = "parquet"}

NextReject ==
    \/ UploadCsv(MaxNodes)
    \/ RunSql(MaxNodes)
    \/ PlotFromArtifact(MaxNodes)
    \/ Checkout
    \/ \E a \in RowsWithoutFile, t \in 0..MaxTime : ApiInsertArtifact(a, t)

SpecReject == Init /\ [][NextReject]_vars

\* The seed of the query is unknown, or its file is missing, or the statement
\* does not begin with SELECT.
SqlRejected(req) ==
    \/ ~HasRow(artifacts, "artifact_id", req.artifact_id)
    \/ ~Exists(store, "path", db_get(artifacts, "artifact_id", req.artifact_id).uri)
    \/ ~startswith_select(sql_clean(req.sql))

\* The artifact of the plot is unknown, or its table lacks a column asked for.
PlotRejected(req) ==
    \/ ~HasRow(artifacts, "artifact_id", req.artifact_id)
    \/ LET uri == db_get(artifacts, "artifact_id", req.artifact_id).uri
       IN  /\ Exists(store, "path", uri)
           /\ IsParquet(FileAt(store, uri).data)
           /\ ~({req.x, req.y} \subseteq Columns(parquet_scan(FileAt(store, uri).data)))

\* C36: a query that names an unknown seed, a seed whose file is missing or a
\* statement that is no SELECT, and a plot that names an unknown artifact or
\* an absent column, end in an error and leave the store, the artifact rows,
\* the node rows and the heads as they were.
C36_RejectedRequestChangesNothing ==
    [][( \/ \E s \in Sessions, a \in ArtifactIds, q \in SqlTexts :
              LET req == [session_id |-> s, artifact_id |-> a, sql |-> q]
              IN  SqlRejected(req) /\ run_sql("run_sql", req)
         \/ \E s \in Sessions, a \in ArtifactIds, p \in PlotArgs :
              LET req == [session_id |-> s, artifact_id |-> a, kind |-> p.kind,
                          x |-> p.x, y |-> p.y]
              IN  PlotRejected(req) /\ plot_from_artifact("plot_from_artifact", req) )
        => /\ ret'.status >= 400
           /\ UNCHANGED <<store, artifacts, nodes, heads>>]_vars

\* A request was turned down in a state with a file, a node, a head and an
\* artifact row whose file is missing.
C36_Witness ==
    /\ ret.call \in {"run_sql", "plot_from_artifact"}
    /\ ret.status \in {400, 404}
    /\ store # {} /\ nodes # <<>> /\ heads # <<>>
    /\ \E i \in DOMAIN artifacts : ~Exists(store, "path", artifacts[i].uri)


----------------------------------------------------------------------------
(* Reads *)

\* get_session_head(session_id), called on its own.
GetSessionHead ==
    \E s \in Sessions :
        /\ ret' = [ call |-> "get_session_head", req |-> [session_id |-> s],
                    head_node_id |-> get_session_head(heads, s) ]
        /\ UNCHANGED <<artifacts, nodes, heads, store, temps, nextTmp, now, proc>>

\* get_node_by_artifact(artifact_id), called on its own.
GetNodeByArtifact ==
    \E a \in ArtifactIds : \E n \in get_node_by_artifact(nodes, a) :
        /\ ret' = [ call |-> "get_node_by_artifact", req |-> [artifact_id |-> a],
                    node_id |-> n ]
        /\ UNCHANGED <<artifacts, nodes, heads, store, temps, nextTmp, now, proc>>

\* Uploads, queries and checkouts build the state the reads are made in.
NextReads ==
    \/ UploadCsv(MaxNodes)
    \/ RunSql(MaxNodes)
    \/ Checkout
    \/ GetHistory
    \/ GetNode
    \/ GetSessionHead
    \/ GetNodeByArtifact
    \/ FetchArtifact

SpecReads == Init /\ [][NextReads]_vars

Reads ==
    {"get_history", "get_node", "get_session_head", "get_node_by_artifact",
     "fetch_artifact"}

\* C37: a history request, get_node, get_session_head, the lookup of the
\* node that produced an artifact and a download leave every artifact row,
\* node row, head and store file as it was, whether they succeed or fail.
C37_ReadsAreReadOnly ==
    [][ret'.call \in Reads => UNCHANGED <<artifacts, nodes, heads, store>>]_vars

\* A download has succeeded in a state with two nodes and a head.
C37_Witness ==
    /\ ret.call = "fetch_artifact" /\ ret.status = 200
    /\ Len(nodes) = 2 /\ heads # <<>>
    /\ ret.file \in store


----------------------------------------------------------------------------
(* What an ask records *)

\* C38: an ask whose plan is an answer, a report or of an unknown type adds
\* no file, no artifact row and no node row and changes no head; an ask of
\* any plan adds at most one file, one artifact row and one node row, and
\* changes no head and no row there is.
C38_AskRecordsOnlyForSqlAndPlot ==
    [][ret'.call = "ask" =>
          /\ \A s \in Sessions, a \in ArtifactIds :
             \A plan \in {p \in Plans : p.type \notin {"sql", "plot"}} :
                ask([session_id |-> s, artifact_id |-> a], plan)
                    => UNCHANGED <<store, artifacts, nodes, heads>>
          /\ heads' = heads
          /\ store \subseteq store' /\ Cardinality(store') <= Cardinality(store) + 1
          /\ Len(artifacts') <= Len(artifacts) + 1
          /\ Len(nodes') <= Len(nodes) + 1
          /\ \A i \in DOMAIN artifacts : artifacts'[i] = artifacts[i]
          /\ \A i \in DOMAIN nodes : nodes'[i] = nodes[i]]_vars

\* An ask was answered without a query or a plot, in a state that has a node.
C38_Witness ==
    /\ ret.call = "ask" /\ ret.status = 200
    /\ "intent" \in DOMAIN ret /\ ret.intent \in {"answer", "report"}
    /\ nodes # <<>> /\ store # {}

============================================================================
